---- MODULE Spec2Model ----
(***************************************************************************)
(* A model of dev-utils' cloc: the line classifier count_lines of          *)
(* src/src/cloc.c as a step machine (one loop iteration per step), and the *)
(* driver around it (detect_language, process_file, process_directory,     *)
(* update_stats_callback, main).                                           *)
(*                                                                         *)
(* Bytes are their ASCII codes.  A buffer is a sequence of bytes; the C    *)
(* cursor p is kept 0-based, so the byte *p is buf[p + 1].                 *)
(***************************************************************************)
EXTENDS Integers, Sequences, FiniteSets, TLC

(***************************************************************************)
(* Bounds of the model.                                                    *)
(***************************************************************************)
\* Every buffer of at most MaxLen bytes over Alphabet is an input.
MaxLen == 4
\* The command line names at most MaxArgs paths.
MaxArgs == 1
\* A directory holds at most MaxEntries entries.
MaxEntries == 2
\* Directories nest at most MaxDepth deep.
MaxDepth == 2
\* A run meets at most MaxFiles regular files.
MaxFiles == 2
\* A file given to countfile holds at most MaxBytes bytes, or is the one
\* file large enough to be mapped.
MaxBytes == 3
\* A file given to diff holds at most MaxLines lines.
MaxLines == 2
\* The command line of hexdump holds at most MaxOpts options.
MaxOpts == 2

(***************************************************************************)
(* Bytes.                                                                  *)
(***************************************************************************)
NL == 10
BSL == 92
DQ == 34
SQ == 39

\* isspace() in the C locale
isspace(c) == c \in {9, 10, 11, 12, 13, 32}

\* The bytes the inputs are drawn from: NUL, newline, space, the two quotes,
\* backslash, the bytes of the comment markers ('/', '*', '#') and 'x'
\* standing for any other byte.
Alphabet == {0, NL, 32, DQ, SQ, BSL, 47, 42, 35, 120}

(***************************************************************************)
(* The language table.  languages[k + 1] is the C entry languages[k]; the  *)
(* last entry is the terminating sentinel with name NULL.                  *)
(***************************************************************************)
NULL == "<NULL>"

CLOC_LANG_NONE == 0
CLOC_LANG_C == 1
CLOC_LANG_CPP == 2
CLOC_LANG_PYTHON == 3
CLOC_LANG_JAVA == 4
CLOC_LANG_GO == 5
CLOC_LANG_RUST == 6
CLOC_LANG_JS == 7

SlashSlash == <<47, 47>>
SlashStar == <<47, 42>>
StarSlash == <<42, 47>>
TripleQuote == <<DQ, DQ, DQ>>

languages ==
  << [name |-> "C", extensions |-> <<<<".", "c">>, <<".", "h">>>>,
      line_comment |-> SlashSlash, block_start |-> SlashStar,
      block_end |-> StarSlash, id |-> CLOC_LANG_C],
     [name |-> "C++",
      extensions |-> <<<<".", "c", "p", "p">>, <<".", "h", "p", "p">>,
                       <<".", "c", "c">>, <<".", "h", "x", "x">>,
                       <<".", "c", "x", "x">>>>,
      line_comment |-> SlashSlash, block_start |-> SlashStar,
      block_end |-> StarSlash, id |-> CLOC_LANG_CPP],
     [name |-> "Python",
      extensions |-> <<<<".", "p", "y">>, <<".", "p", "y", "w">>>>,
      line_comment |-> <<35>>, block_start |-> TripleQuote,
      block_end |-> TripleQuote, id |-> CLOC_LANG_PYTHON],
     [name |-> "Java", extensions |-> <<<<".", "j", "a", "v", "a">>>>,
      line_comment |-> SlashSlash, block_start |-> SlashStar,
      block_end |-> StarSlash, id |-> CLOC_LANG_JAVA],
     [name |-> "Go", extensions |-> <<<<".", "g", "o">>>>,
      line_comment |-> SlashSlash, block_start |-> SlashStar,
      block_end |-> StarSlash, id |-> CLOC_LANG_GO],
     [name |-> "Rust", extensions |-> <<<<".", "r", "s">>>>,
      line_comment |-> SlashSlash, block_start |-> SlashStar,
      block_end |-> StarSlash, id |-> CLOC_LANG_RUST],
     [name |-> "JavaScript",
      extensions |-> <<<<".", "j", "s">>, <<".", "j", "s", "x">>,
                       <<".", "m", "j", "s">>>>,
      line_comment |-> SlashSlash, block_start |-> SlashStar,
      block_end |-> StarSlash, id |-> CLOC_LANG_JS],
     [name |-> NULL, extensions |-> <<>>,
      line_comment |-> <<>>, block_start |-> <<>>,
      block_end |-> <<>>, id |-> CLOC_LANG_NONE] >>

\* The entries with a name (the loop `lang->name` of detect_language stops at
\* the sentinel).
NumLanguages == Len(languages) - 1

(***************************************************************************)
(* count_lines, one loop iteration at a time.                              *)
(***************************************************************************)
\* p + strlen(m) <= end && memcmp(p, m, strlen(m)) == 0
MarkerAt(b, p, m) ==
  /\ p + Len(m) <= Len(b)
  /\ \A k \in 1..Len(m) : b[p + k] = m[k]

\* The locals of count_lines and the counters of *stats on entry.  cls is a
\* history of the increments: cls[k] is the counter incremented by the k-th
\* increment of the call.
ScanStart(b) ==
  [p |-> 0, in_block_comment |-> FALSE, in_line_comment |-> FALSE,
   has_code |-> FALSE, in_string |-> FALSE, string_char |-> 0,
   lines_code |-> 0, lines_comment |-> 0, lines_blank |-> 0,
   size |-> Len(b), cls |-> <<>>]

\* EndOfLine without the reset of has_code
EndOfLine_KeepHasCode(s) ==
  LET kind == IF s.in_line_comment THEN "comment"
              ELSE IF s.in_block_comment THEN "comment"
              ELSE IF s.has_code THEN "code"
              ELSE "blank"
  IN [s EXCEPT !.lines_comment = IF kind = "comment" THEN @ + 1 ELSE @,
               !.lines_code = IF kind = "code" THEN @ + 1 ELSE @,
               !.lines_blank = IF kind = "blank" THEN @ + 1 ELSE @,
               !.cls = Append(@, kind),
               !.in_line_comment = FALSE,
               !.p = @ + 1]

\* EndOfLine with has_code tested before the comment states
EndOfLine_CodeFirst(s) ==
  LET kind == IF s.has_code THEN "code"
              ELSE IF s.in_line_comment THEN "comment"
              ELSE IF s.in_block_comment THEN "comment"
              ELSE "blank"
  IN [s EXCEPT !.lines_comment = IF kind = "comment" THEN @ + 1 ELSE @,
               !.lines_code = IF kind = "code" THEN @ + 1 ELSE @,
               !.lines_blank = IF kind = "blank" THEN @ + 1 ELSE @,
               !.cls = Append(@, kind),
               !.in_line_comment = FALSE,
               !.has_code = FALSE,
               !.p = @ + 1]

\* The end-of-line branch: classify the line, reset the line state.
EndOfLine(s) ==
  LET kind == IF s.in_line_comment THEN "comment"
              ELSE IF s.in_block_comment THEN "comment"
              ELSE IF s.has_code THEN "code"
              ELSE "blank"
  IN [s EXCEPT !.lines_comment = IF kind = "comment" THEN @ + 1 ELSE @,
               !.lines_code = IF kind = "code" THEN @ + 1 ELSE @,
               !.lines_blank = IF kind = "blank" THEN @ + 1 ELSE @,
               !.cls = Append(@, kind),
               !.in_line_comment = FALSE,
               !.has_code = FALSE,
               !.p = @ + 1]

\* StringRule without the look at the byte before a closing quote
StringRule_NoEscape(s, b) ==
  LET c == b[s.p + 1]
  IN IF ~s.in_line_comment /\ ~s.in_block_comment
     THEN IF ~s.in_string /\ (c = DQ \/ c = SQ)
          THEN [s EXCEPT !.in_string = TRUE, !.string_char = c,
                         !.has_code = TRUE]
          ELSE IF s.in_string /\ c = s.string_char
               THEN [s EXCEPT !.in_string = FALSE]
               ELSE s
     ELSE s

\* The string block: the flags after `if (!in_line_comment && !in_block_comment)`
StringRule(s, b) ==
  LET c == b[s.p + 1]
  IN IF ~s.in_line_comment /\ ~s.in_block_comment
     THEN IF ~s.in_string /\ (c = DQ \/ c = SQ)
          THEN [s EXCEPT !.in_string = TRUE, !.string_char = c,
                         !.has_code = TRUE]
          ELSE IF s.in_string /\ c = s.string_char /\ b[s.p] # BSL
               THEN [s EXCEPT !.in_string = FALSE]
               ELSE s
     ELSE s

\* MarkerRules with a block-comment end that leaves in_block_comment set
MarkerRules_KeepBlock(s, b, l) ==
  IF ~s.in_line_comment /\ ~s.in_block_comment /\ MarkerAt(b, s.p, l.block_start)
  THEN [s EXCEPT !.in_block_comment = TRUE, !.p = @ + Len(l.block_start)]
  ELSE IF s.in_block_comment /\ MarkerAt(b, s.p, l.block_end)
  THEN [s EXCEPT !.p = @ + Len(l.block_end)]
  ELSE IF ~s.in_block_comment /\ ~s.in_line_comment
          /\ MarkerAt(b, s.p, l.line_comment)
  THEN [s EXCEPT !.in_line_comment = TRUE, !.p = @ + Len(l.line_comment)]
  ELSE IF ~s.in_block_comment /\ ~s.in_line_comment
  THEN [s EXCEPT !.has_code = TRUE, !.p = @ + 1]
  ELSE [s EXCEPT !.p = @ + 1]

\* MarkerRules without the final p++ for a byte inside a comment
MarkerRules_NoAdvance(s, b, l) ==
  IF ~s.in_line_comment /\ ~s.in_block_comment /\ MarkerAt(b, s.p, l.block_start)
  THEN [s EXCEPT !.in_block_comment = TRUE, !.p = @ + Len(l.block_start)]
  ELSE IF s.in_block_comment /\ MarkerAt(b, s.p, l.block_end)
  THEN [s EXCEPT !.in_block_comment = FALSE, !.p = @ + Len(l.block_end)]
  ELSE IF ~s.in_block_comment /\ ~s.in_line_comment
          /\ MarkerAt(b, s.p, l.line_comment)
  THEN [s EXCEPT !.in_line_comment = TRUE, !.p = @ + Len(l.line_comment)]
  ELSE IF ~s.in_block_comment /\ ~s.in_line_comment
  THEN [s EXCEPT !.has_code = TRUE, !.p = @ + 1]
  ELSE s

\* MarkerRules with a line-comment test that leaves out !in_block_comment
MarkerRules_LineInBlock(s, b, l) ==
  IF ~s.in_line_comment /\ ~s.in_block_comment /\ MarkerAt(b, s.p, l.block_start)
  THEN [s EXCEPT !.in_block_comment = TRUE, !.p = @ + Len(l.block_start)]
  ELSE IF ~s.in_line_comment /\ MarkerAt(b, s.p, l.line_comment)
  THEN [s EXCEPT !.in_line_comment = TRUE, !.p = @ + Len(l.line_comment)]
  ELSE IF s.in_block_comment /\ MarkerAt(b, s.p, l.block_end)
  THEN [s EXCEPT !.in_block_comment = FALSE, !.p = @ + Len(l.block_end)]
  ELSE IF ~s.in_block_comment /\ ~s.in_line_comment
  THEN [s EXCEPT !.has_code = TRUE, !.p = @ + 1]
  ELSE [s EXCEPT !.p = @ + 1]

\* What follows the string block, for a byte outside a string: the comment
\* markers in the order of the source, then ordinary code.
MarkerRules(s, b, l) ==
  IF ~s.in_line_comment /\ ~s.in_block_comment /\ MarkerAt(b, s.p, l.block_start)
  THEN [s EXCEPT !.in_block_comment = TRUE, !.p = @ + Len(l.block_start)]
  ELSE IF s.in_block_comment /\ MarkerAt(b, s.p, l.block_end)
  THEN [s EXCEPT !.in_block_comment = FALSE, !.p = @ + Len(l.block_end)]
  ELSE IF ~s.in_block_comment /\ ~s.in_line_comment
          /\ MarkerAt(b, s.p, l.line_comment)
  THEN [s EXCEPT !.in_line_comment = TRUE, !.p = @ + Len(l.line_comment)]
  ELSE IF ~s.in_block_comment /\ ~s.in_line_comment
  THEN [s EXCEPT !.has_code = TRUE, !.p = @ + 1]
  ELSE [s EXCEPT !.p = @ + 1]

\* ScanStep without `if (in_string) { p++; continue; }`
ScanStep_NoStringSkip(s, b, l) ==
  LET c == b[s.p + 1]
  IN IF c = NL \/ s.p = Len(b) - 1 THEN EndOfLine(s)
     ELSE IF isspace(c) THEN [s EXCEPT !.p = @ + 1]
     ELSE MarkerRules(StringRule(s, b), b, l)

\* One iteration of `while (p < end)`.
ScanStep(s, b, l) ==
  LET c == b[s.p + 1]
  IN IF c = NL \/ s.p = Len(b) - 1 THEN EndOfLine(s)
     ELSE IF isspace(c) THEN [s EXCEPT !.p = @ + 1]
     ELSE LET t == StringRule(s, b)
          IN IF t.in_string THEN [t EXCEPT !.p = @ + 1]
             ELSE MarkerRules(t, b, l)

\* The bytes memcmp(p, m, strlen(m)) reads, offsets from buf
Compared(p, m) == p..(p + Len(m) - 1)

\* Reads without the tests `p + strlen(...) <= end` before memcmp
Reads_NoLengthGuard(s, b, l) ==
  LET c == b[s.p + 1]
      t == StringRule(s, b)
      free == ~s.in_line_comment /\ ~s.in_block_comment
      lookback == IF free /\ ~(~s.in_string /\ (c = DQ \/ c = SQ))
                     /\ s.in_string /\ c = s.string_char
                  THEN {s.p - 1} ELSE {}
      start == IF free THEN Compared(s.p, l.block_start) ELSE {}
      started == free /\ MarkerAt(b, s.p, l.block_start)
      stop == IF ~started /\ s.in_block_comment
              THEN Compared(s.p, l.block_end) ELSE {}
      stopped == ~started /\ s.in_block_comment /\ MarkerAt(b, s.p, l.block_end)
      line == IF ~started /\ ~stopped /\ free
              THEN Compared(s.p, l.line_comment) ELSE {}
  IN IF c = NL \/ s.p = Len(b) - 1 THEN {s.p}
     ELSE IF isspace(c) THEN {s.p}
     ELSE IF t.in_string THEN {s.p} \cup lookback
     ELSE {s.p} \cup lookback \cup start \cup stop \cup line

\* The offsets from buf of the bytes one iteration of the loop reads: *p,
\* *(p-1) in the string block, and the bytes memcmp compares at each marker
\* test the iteration reaches
Reads(s, b, l) ==
  LET c == b[s.p + 1]
      t == StringRule(s, b)
      free == ~s.in_line_comment /\ ~s.in_block_comment
      fits(m) == s.p + Len(m) <= Len(b)
      lookback == IF free /\ ~(~s.in_string /\ (c = DQ \/ c = SQ))
                     /\ s.in_string /\ c = s.string_char
                  THEN {s.p - 1} ELSE {}
      start == IF free /\ fits(l.block_start)
               THEN Compared(s.p, l.block_start) ELSE {}
      started == free /\ MarkerAt(b, s.p, l.block_start)
      stop == IF ~started /\ s.in_block_comment /\ fits(l.block_end)
              THEN Compared(s.p, l.block_end) ELSE {}
      stopped == ~started /\ s.in_block_comment /\ MarkerAt(b, s.p, l.block_end)
      line == IF ~started /\ ~stopped /\ free /\ fits(l.line_comment)
              THEN Compared(s.p, l.line_comment) ELSE {}
  IN IF c = NL \/ s.p = Len(b) - 1 THEN {s.p}
     ELSE IF isspace(c) THEN {s.p}
     ELSE IF t.in_string THEN {s.p} \cup lookback
     ELSE {s.p} \cup lookback \cup start \cup stop \cup line

\* The offsets read after the loop: *(end-1) when has_code is set
LastReads(s, b) == IF s.has_code THEN {Len(b) - 1} ELSE {}

\* After the loop: `if (has_code && *(end-1) != '\n') stats->lines_code++`
LastLine(s, b) ==
  IF s.has_code /\ b[Len(b)] # NL
  THEN [s EXCEPT !.lines_code = @ + 1, !.cls = Append(@, "code")]
  ELSE s

\* count_lines as a function: iterate ScanStep to the end of the buffer, then
\* the check of the last line.  Only called with a non-empty buffer
\* (process_file returns before the call when st_size is 0).
RECURSIVE ScanFrom(_, _, _)
ScanFrom(s, b, l) ==
  IF s.p < Len(b) THEN ScanFrom(ScanStep(s, b, l), b, l) ELSE LastLine(s, b)

count_lines(b, l) == ScanFrom(ScanStart(b), b, l)

(***************************************************************************)
(* The driver: language detection, process_file, the aggregate.            *)
(* A path is a sequence of characters; a file of the environment is a      *)
(* record of its name, content and of whether open, fstat and mmap succeed *)
(* on it.                                                                  *)
(***************************************************************************)
CLOC_MAX_PATH == 4096
CLOC_MAX_LANGUAGES == 128
MAX_EXAMINE_SIZE == 4096

CLOC_SUCCESS == 0
CLOC_ERROR_IO == -1
CLOC_ERROR_MEM == -2
CLOC_ERROR_ARG == -3
CLOC_ERROR_LIMIT == -4

cpp_keywords ==
  << <<99, 108, 97, 115, 115>>,
     <<110, 97, 109, 101, 115, 112, 97, 99, 101>>,
     <<116, 101, 109, 112, 108, 97, 116, 101>>,
     <<116, 121, 112, 101, 110, 97, 109, 101>>,
     <<111, 112, 101, 114, 97, 116, 111, 114>>,
     <<118, 105, 114, 116, 117, 97, 108>>,
     <<112, 117, 98, 108, 105, 99, 58>>,
     <<112, 114, 105, 118, 97, 116, 101, 58>>,
     <<112, 114, 111, 116, 101, 99, 116, 101, 100, 58>>,
     <<102, 114, 105, 101, 110, 100>> >>

\* The C string held by a buffer: its bytes before the first NUL
CString(b) ==
  IF \E k \in 1..Len(b) : b[k] = 0
  THEN SubSeq(b, 1, (CHOOSE k \in 1..Len(b) :
                       b[k] = 0 /\ \A j \in 1..(k - 1) : b[j] # 0) - 1)
  ELSE b

\* strstr(h, n) != NULL
strstr(h, n) ==
  \E k \in 0..(Len(h) - Len(n)) : \A j \in 1..Len(n) : h[k + j] = n[j]

\* is_cpp_file on the first `size` bytes of content, copied and NUL-terminated;
\* 0 when malloc fails
is_cpp_file(content, size, malloc_ok) ==
  LET b == CString(SubSeq(content, 1, size))
  IN malloc_ok /\ \E w \in 1..Len(cpp_keywords) : strstr(b, cpp_keywords[w])

\* strrchr(path, '.'): the suffix of path from its last '.', <<>> for NULL
strrchr_dot(path) ==
  IF \E k \in 1..Len(path) : path[k] = "."
  THEN SubSeq(path,
              CHOOSE k \in 1..Len(path) :
                path[k] = "." /\ \A j \in (k + 1)..Len(path) : path[j] # ".",
              Len(path))
  ELSE <<>>

Min(a, b) == IF a < b THEN a ELSE b

\* detect_language: the index into languages of the syntax of the file f at
\* path, 0 for NULL.
detect_language(path, f) ==
  LET ext == strrchr_dot(path)
      hits == {l \in 1..NumLanguages :
                 \E e \in 1..Len(languages[l].extensions) :
                   languages[l].extensions[e] = ext}
  IN IF ext = <<>> \/ hits = {} THEN 0
     ELSE IF ext = <<".", "h">>
     THEN IF ~f.open_ok THEN 1
          ELSE IF is_cpp_file(f.content,
                              Min(Len(f.content), MAX_EXAMINE_SIZE),
                              f.malloc_ok)
               THEN 2 ELSE 1
     ELSE CHOOSE l \in hits : \A m \in hits : l <= m

\* init_file_stats, and the strncpy of the path
init_file_stats(path) ==
  [path |-> SubSeq(path, 1, Min(Len(path), CLOC_MAX_PATH - 1)), size |-> 0,
   lines_code |-> 0, lines_comment |-> 0, lines_blank |-> 0,
   language |-> 0, error |-> 0]

\* process_file without its two early returns: an unknown language is
\* scanned as languages[0] and a size of 0 goes on to mmap and count_lines
process_file_NoEarlyReturn(path, f) ==
  LET s0 == init_file_stats(path)
      l == detect_language(path, f)
      s1 == IF l = 0 THEN s0 ELSE [s0 EXCEPT !.language = languages[l].id]
      c == count_lines(f.content, languages[IF l = 0 THEN 1 ELSE l])
  IN IF ~f.open_ok
     THEN [result |-> CLOC_ERROR_IO,
           stats |-> [s1 EXCEPT !.error = CLOC_ERROR_IO], scanned |-> FALSE]
     ELSE IF ~f.fstat_ok
     THEN [result |-> CLOC_ERROR_IO, stats |-> s1, scanned |-> FALSE]
     ELSE IF ~f.mmap_ok
     THEN [result |-> CLOC_ERROR_IO, stats |-> s1, scanned |-> FALSE]
     ELSE [result |-> CLOC_SUCCESS,
           stats |-> [s1 EXCEPT !.size = c.size,
                                !.lines_code = c.lines_code,
                                !.lines_comment = c.lines_comment,
                                !.lines_blank = c.lines_blank],
           scanned |-> TRUE]

\* process_file: the value returned and *stats after the call; scanned is
\* history: whether the call of count_lines was reached
process_file(path, f) ==
  LET s0 == init_file_stats(path)
      l == detect_language(path, f)
      s1 == [s0 EXCEPT !.language = languages[l].id]
      c == count_lines(f.content, languages[l])
  IN IF l = 0
     THEN [result |-> CLOC_ERROR_ARG, stats |-> s0, scanned |-> FALSE]
     ELSE IF ~f.open_ok
     THEN [result |-> CLOC_ERROR_IO,
           stats |-> [s1 EXCEPT !.error = CLOC_ERROR_IO], scanned |-> FALSE]
     ELSE IF ~f.fstat_ok
     THEN [result |-> CLOC_ERROR_IO, stats |-> s1, scanned |-> FALSE]
     ELSE IF Len(f.content) = 0
     THEN [result |-> CLOC_SUCCESS, stats |-> s1, scanned |-> FALSE]
     ELSE IF ~f.mmap_ok
     THEN [result |-> CLOC_ERROR_IO, stats |-> s1, scanned |-> FALSE]
     ELSE [result |-> CLOC_SUCCESS,
           stats |-> [s1 EXCEPT !.size = c.size,
                                !.lines_code = c.lines_code,
                                !.lines_comment = c.lines_comment,
                                !.lines_blank = c.lines_blank],
           scanned |-> TRUE]

\* update_stats_callback: the value returned and global_stats after the call.
\* gs holds the first global_stats_count entries of global_stats.
update_stats_callback(gs, fs) ==
  LET name == languages[fs.language + 1].name
      found == {k \in 1..Len(gs) : gs[k].name = name}
      at == IF found # {} THEN CHOOSE k \in found : \A m \in found : k <= m
            ELSE Len(gs) + 1
      g1 == IF found # {} THEN gs
            ELSE Append(gs, [name |-> name, files |-> 0, lines_code |-> 0,
                             lines_comment |-> 0, lines_blank |-> 0, bytes |-> 0])
  IN IF found = {} /\ Len(gs) >= CLOC_MAX_LANGUAGES
     THEN [result |-> CLOC_ERROR_LIMIT, gs |-> gs]
     ELSE [result |-> CLOC_SUCCESS,
           gs |-> [g1 EXCEPT ![at].files = @ + 1,
                             ![at].lines_code = @ + fs.lines_code,
                             ![at].lines_comment = @ + fs.lines_comment,
                             ![at].lines_blank = @ + fs.lines_blank,
                             ![at].bytes = @ + fs.size]]


(***************************************************************************)
(* The inputs of the classifier.                                           *)
(***************************************************************************)
\* Text as bytes
Str_start == <<115, 116, 97, 114, 116>>
Str_mid == <<109, 105, 100>>
Str_end == <<101, 110, 100>>
Str_call == <<120, 40, 41, 59>>
Str_not_a_comment == <<110, 111, 116, 32, 97, 32, 99, 111, 109, 109, 101, 110, 116>>

\* "/* start\nmid\nend */ x();\n"
BlockThenCode ==
  SlashStar \o <<32>> \o Str_start \o <<NL>> \o Str_mid \o <<NL>>
  \o Str_end \o <<32>> \o StarSlash \o <<32>> \o Str_call \o <<NL>>

\* "/* start\nmid\nend */ \n": the end marker followed by whitespace only
BlockThreeLines ==
  SlashStar \o <<32>> \o Str_start \o <<NL>> \o Str_mid \o <<NL>>
  \o Str_end \o <<32>> \o StarSlash \o <<32, NL>>

\* "\"// not a comment\"\n"
StringWithLineMarker ==
  <<DQ>> \o SlashSlash \o <<32>> \o Str_not_a_comment \o <<DQ, NL>>

\* "\"/*\" x\n"
StringWithBlockMarker == <<DQ>> \o SlashStar \o <<DQ, 32, 120, NL>>

\* "int x = 1;\n\n// comment\n"
CodeBlankComment ==
  <<105, 110, 116, 32, 120, 32, 61, 32, 49, 59, NL, NL>>
  \o SlashSlash \o <<32, 99, 111, 109, 109, 101, 110, 116, NL>>

\* "/*\n \n*/\n": a whitespace-only line inside a block comment
BlankInBlock == SlashStar \o <<NL, 32, NL>> \o StarSlash \o <<NL>>

\* "\"a\\\"b\" x\n" and "\"a\\\\\" x\n"
EscapedQuote == <<DQ, 97, BSL, DQ, 98, DQ, 32, 120, NL>>
EscapedBackslash == <<DQ, 97, BSL, BSL, DQ, 32, 120, NL>>

Scenarios ==
  {BlockThenCode, BlockThreeLines, StringWithLineMarker, StringWithBlockMarker,
   CodeBlankComment, BlankInBlock, EscapedQuote, EscapedBackslash}

\* Every non-empty buffer of at most MaxLen bytes over Alphabet, and the
\* scenarios.
Buffers == UNION {[1..n -> Alphabet] : n \in 1..MaxLen} \cup Scenarios

\* The syntaxes the classifier is run with: C (index 1; C++, Java, Go, Rust
\* and JavaScript have the same markers) and Python (index 3).
ScanLangs == {1, 3}

(***************************************************************************)
(* The environment of the driver: the files and directory entries a run    *)
(* can meet.                                                               *)
(***************************************************************************)
File(name, content) ==
  [name |-> name, open_ok |-> TRUE, fstat_ok |-> TRUE, mmap_ok |-> TRUE,
   malloc_ok |-> TRUE, content |-> content]

\* "x\n", "#\nx\n", "class x\n"
Text_x == <<120, NL>>
Text_py == <<35, NL, 120, NL>>
Text_class == <<99, 108, 97, 115, 115, 32, 120, NL>>

GoodFiles ==
  { File(<<"a", ".", "c">>, CodeBlankComment),
    File(<<"a", ".", "h">>, Text_x),
    File(<<"b", ".", "h">>, Text_class),
    File(<<"a", ".", "c", "p", "p">>, Text_x),
    File(<<"a", ".", "p", "y">>, Text_py),
    File(<<"a", ".", "j", "a", "v", "a">>, Text_x),
    File(<<"a", ".", "j", "s">>, Text_x),
    File(<<"z", ".", "c">>, <<>>) }

\* Files without a known language: no '.', an extension in upper case
UnknownFiles ==
  { File(<<"R", "E", "A", "D", "M", "E">>, Text_x),
    File(<<"a", ".", "C">>, Text_x) }

\* Files on which open, fstat or mmap fails
FailingFiles ==
  { [File(<<"e", ".", "c">>, Text_x) EXCEPT !.open_ok = FALSE],
    [File(<<"e", ".", "h">>, Text_class) EXCEPT !.open_ok = FALSE],
    [File(<<"f", ".", "c">>, Text_x) EXCEPT !.fstat_ok = FALSE],
    [File(<<"m", ".", "c">>, Text_x) EXCEPT !.mmap_ok = FALSE] }

Files == GoodFiles \cup UnknownFiles \cup FailingFiles

\* Directory entries that are no regular file: d_name, whether lstat
\* succeeds, and the type lstat reports.
OtherEntries ==
  { [d_name |-> <<".">>, lstat_ok |-> TRUE, type |-> "dir"],
    [d_name |-> <<".", ".">>, lstat_ok |-> TRUE, type |-> "dir"],
    [d_name |-> <<".", "a", ".", "c">>, lstat_ok |-> TRUE, type |-> "reg"],
    [d_name |-> <<"g", ".", "c">>, lstat_ok |-> FALSE, type |-> "reg"],
    [d_name |-> <<"l", ".", "c">>, lstat_ok |-> TRUE, type |-> "lnk"] }

DirName == <<"d">>

\* snprintf(full_path, ..., "%s/%s", path, d_name)
FullPath(path, d_name) == path \o <<"/">> \o d_name

ZeroTally ==
  [files |-> 0, lines_code |-> 0, lines_comment |-> 0, lines_blank |-> 0,
   bytes |-> 0]

\* The tally with the counts of one processed file added
AddFile(tl, fs) ==
  [files |-> tl.files + 1, lines_code |-> tl.lines_code + fs.lines_code,
   lines_comment |-> tl.lines_comment + fs.lines_comment,
   lines_blank |-> tl.lines_blank + fs.lines_blank,
   bytes |-> tl.bytes + fs.size]

(***************************************************************************)
(* State.                                                                  *)
(***************************************************************************)
VARIABLES
  buf,    \* count_lines: the buffer (buf, size)
  lang,   \* count_lines: the syntax, an index into languages
  sc,     \* count_lines: the locals and the counters of *stats
  pc,     \* count_lines: "loop" in the while loop, "done" after the return
  argc,          \* main: the number of arguments, the program name included
  i,             \* main: the index of the argument at hand
  exit_code,     \* main: exit_code
  cpc,           \* main: "start", "main" (the loop over argv), "dir" (inside
                 \* process_directory), and its three returns: "usage",
                 \* "nomem" (cloc_init failed), "exit" (after print_stats)
  stack,         \* the active calls of process_directory, innermost last:
                 \* path, the entries readdir has yet to return, result, and
                 \* whether the loop was left by break
  global_stats,  \* the first global_stats_count entries of global_stats
  nfiles,        \* the regular files met so far
  seen,          \* history: per language id, the tally of the files
                 \* processed with success that were detected as it
  unread,        \* history: the entries of closed directory streams that
                 \* readdir never returned
  failed,        \* history: some call of process_file returned CLOC_ERROR_IO
  last,          \* history: the latest call of process_file: whether a
                 \* language was detected, st_size, the value returned,
                 \* whether count_lines ran, and the counters of *stats
  det,           \* detect_language on its own: the call and its outcome
  cf,            \* countfile: the state of one run of main
  df,            \* diff: the state of one call of compare_files
  hx,            \* hexdump: the state of one run of main
  ck             \* checksum: the state of one call of checksum_file

scanVars == <<buf, lang, sc, pc>>

fileHist == <<failed, last>>

clocVars ==
  <<argc, i, exit_code, cpc, stack, global_stats, nfiles, seen, unread,
    failed, last>>

toolVars == <<det, cf, df, hx, ck>>

vars == <<buf, lang, sc, pc, argc, i, exit_code, cpc, stack, global_stats,
          nfiles, seen, unread, failed, last, det, cf, df, hx, ck>>

\* No call of process_file yet
NoCall ==
  [called |-> FALSE, known |-> FALSE, opened |-> FALSE, st_size |-> 0,
   result |-> CLOC_SUCCESS, scanned |-> FALSE, size |-> 0, lines_code |-> 0, lines_comment |-> 0,
   lines_blank |-> 0]

\* The call process_file(path, f) that returned r
Called(path, f, r) ==
  [called |-> TRUE, known |-> detect_language(path, f) # 0,
   opened |-> (f.open_ok /\ f.fstat_ok),
   st_size |-> Len(f.content), result |-> r.result, scanned |-> r.scanned,
   size |-> r.stats.size, lines_code |-> r.stats.lines_code,
   lines_comment |-> r.stats.lines_comment,
   lines_blank |-> r.stats.lines_blank]

\* count_lines, not running
ScanIdle ==
  /\ buf = <<>>
  /\ lang = 0
  /\ sc = ScanStart(<<>>)
  /\ pc = "idle"

\* detect_language, countfile and diff, not running
DetIdle == det = [pc |-> "idle"]
CfIdle == cf = [pc |-> "idle"]
DfIdle == df = [pc |-> "idle"]

HxIdle == hx = [pc |-> "idle"]
CkIdle == ck = [pc |-> "idle"]

ToolsIdle == DetIdle /\ CfIdle /\ DfIdle /\ HxIdle /\ CkIdle

\* The driver before main runs
ClocIdle ==
  /\ i = 1
  /\ exit_code = 0
  /\ cpc = "start"
  /\ stack = <<>>
  /\ global_stats = <<>>
  /\ nfiles = 0
  /\ seen = [l \in 1..NumLanguages |-> ZeroTally]
  /\ unread = 0
  /\ failed = FALSE
  /\ last = NoCall

(***************************************************************************)
(* The classifier on its own: count_lines on every input.                  *)
(***************************************************************************)
Init ==
  /\ buf \in Buffers
  /\ lang \in ScanLangs
  /\ sc = ScanStart(buf)
  /\ pc = "loop"
  /\ argc = 1
  /\ ClocIdle
  /\ ToolsIdle

\* One iteration of the while loop of count_lines.
Iterate ==
  /\ pc = "loop"
  /\ sc.p < Len(buf)
  /\ sc' = ScanStep(sc, buf, languages[lang])
  /\ UNCHANGED <<buf, lang, pc>>
  /\ UNCHANGED clocVars
  /\ UNCHANGED toolVars

\* The loop ends; the last line is handled and count_lines returns.
Return ==
  /\ pc = "loop"
  /\ sc.p >= Len(buf)
  /\ sc' = LastLine(sc, buf)
  /\ pc' = "done"
  /\ UNCHANGED <<buf, lang>>
  /\ UNCHANGED clocVars
  /\ UNCHANGED toolVars

Next == Iterate \/ Return

Spec == Init /\ [][Next]_vars

(***************************************************************************)
(* The driver: main over its arguments, process_directory over the entries *)
(* of a directory.  What stat, opendir, readdir and lstat report is chosen *)
(* when the call is made.                                                  *)
(***************************************************************************)
InitCloc ==
  /\ ScanIdle
  /\ argc \in 1..(MaxArgs + 1)
  /\ ClocIdle
  /\ ToolsIdle

\* main, argc < 2: the usage message, return 1
MainUsage ==
  /\ cpc = "start"
  /\ argc < 2
  /\ exit_code' = 1
  /\ cpc' = "usage"
  /\ UNCHANGED <<argc, i, stack, global_stats, nfiles, seen, unread>>
  /\ UNCHANGED fileHist
  /\ UNCHANGED scanVars
  /\ UNCHANGED toolVars

\* main: cloc_init; when calloc fails main returns 1
MainInit ==
  /\ cpc = "start"
  /\ argc >= 2
  /\ \E calloc_ok \in BOOLEAN :
       IF calloc_ok
       THEN /\ global_stats' = <<>>
            /\ cpc' = "main"
            /\ UNCHANGED exit_code
       ELSE /\ exit_code' = 1
            /\ cpc' = "nomem"
            /\ UNCHANGED global_stats
  /\ UNCHANGED <<argc, i, stack, nfiles, seen, unread>>
  /\ UNCHANGED fileHist
  /\ UNCHANGED scanVars
  /\ UNCHANGED toolVars

\* The callback after a successful process_file: the aggregate, and the
\* history of what was detected.
Aggregated(r) ==
  /\ global_stats' = update_stats_callback(global_stats, r.stats).gs
  /\ seen' = [seen EXCEPT ![r.stats.language] = AddFile(@, r.stats)]

\* History of the call process_file(path, f) that returned r
Recorded(path, f, r) ==
  /\ failed' = (failed \/ r.result = CLOC_ERROR_IO)
  /\ last' = Called(path, f, r)

\* main: stat(argv[i]) fails
MainStatFails ==
  /\ cpc = "main"
  /\ i < argc
  /\ exit_code' = 1
  /\ i' = i + 1
  /\ UNCHANGED <<argc, cpc, stack, global_stats, nfiles, seen, unread>>
  /\ UNCHANGED fileHist
  /\ UNCHANGED scanVars
  /\ UNCHANGED toolVars

\* main: argv[i] is no directory: process_file, then the callback
MainFile ==
  /\ cpc = "main"
  /\ i < argc
  /\ nfiles < MaxFiles
  /\ \E f \in Files :
       LET r == process_file(f.name, f)
       IN /\ IF r.result = CLOC_SUCCESS
             THEN Aggregated(r) /\ UNCHANGED exit_code
             ELSE exit_code' = 1 /\ UNCHANGED <<global_stats, seen>>
          /\ Recorded(f.name, f, r)
  /\ nfiles' = nfiles + 1
  /\ i' = i + 1
  /\ UNCHANGED <<argc, cpc, stack, unread>>
  /\ UNCHANGED scanVars
  /\ UNCHANGED toolVars

\* main: argv[i] is a directory: process_directory is called.  When opendir
\* fails it returns CLOC_ERROR_IO at once.
MainDirectory ==
  /\ cpc = "main"
  /\ i < argc
  /\ \/ /\ exit_code' = 1
        /\ i' = i + 1
        /\ UNCHANGED <<cpc, stack>>
     \/ \E n \in 0..MaxEntries :
          /\ stack' = <<[path |-> DirName, left |-> n,
                         result |-> CLOC_SUCCESS, brk |-> FALSE]>>
          /\ cpc' = "dir"
          /\ UNCHANGED <<exit_code, i>>
  /\ UNCHANGED <<argc, global_stats, nfiles, seen, unread>>
  /\ UNCHANGED fileHist
  /\ UNCHANGED scanVars
  /\ UNCHANGED toolVars

Top == stack[Len(stack)]

\* The stack with readdir having returned one more entry of the innermost
\* directory
Consumed == [stack EXCEPT ![Len(stack)].left = @ - 1]

\* process_directory: readdir returns an entry that is skipped: a hidden
\* name, a path too long, an entry lstat fails on, or one that is neither a
\* directory nor a regular file
DirSkip ==
  /\ cpc = "dir"
  /\ ~Top.brk
  /\ Top.left > 0
  /\ \E e \in OtherEntries :
       \/ e.d_name[1] = "."
       \/ Len(Top.path) + Len(e.d_name) + 2 > CLOC_MAX_PATH
       \/ ~e.lstat_ok
       \/ e.type \notin {"dir", "reg"}
  /\ stack' = Consumed
  /\ UNCHANGED <<argc, i, exit_code, cpc, global_stats, nfiles, seen, unread>>
  /\ UNCHANGED fileHist
  /\ UNCHANGED scanVars
  /\ UNCHANGED toolVars

\* process_directory: readdir returns a regular file: process_file, then the
\* callback; a callback that fails ends the loop
DirFile ==
  /\ cpc = "dir"
  /\ ~Top.brk
  /\ Top.left > 0
  /\ nfiles < MaxFiles
  /\ \E f \in Files :
       LET r == process_file(FullPath(Top.path, f.name), f)
           cb == update_stats_callback(global_stats, r.stats)
       IN /\ Recorded(FullPath(Top.path, f.name), f, r)
          /\ IF r.result = CLOC_SUCCESS
             THEN /\ Aggregated(r)
                  /\ stack' = IF cb.result # 0
                              THEN [Consumed EXCEPT
                                      ![Len(stack)].result = CLOC_ERROR_ARG,
                                      ![Len(stack)].brk = TRUE]
                              ELSE Consumed
             ELSE /\ stack' = Consumed
                  /\ UNCHANGED <<global_stats, seen>>
  /\ nfiles' = nfiles + 1
  /\ UNCHANGED <<argc, i, exit_code, cpc, unread>>
  /\ UNCHANGED scanVars
  /\ UNCHANGED toolVars

\* process_directory: readdir returns a directory: the recursive call.  When
\* its opendir fails the call returns CLOC_ERROR_IO and the loop is left.
DirSubdir ==
  /\ cpc = "dir"
  /\ ~Top.brk
  /\ Top.left > 0
  /\ Len(stack) < MaxDepth
  /\ \/ stack' = [Consumed EXCEPT ![Len(stack)].result = CLOC_ERROR_IO,
                                  ![Len(stack)].brk = TRUE]
     \/ \E n \in 0..MaxEntries :
          stack' = Append(Consumed,
                          [path |-> FullPath(Top.path, DirName), left |-> n,
                           result |-> CLOC_SUCCESS, brk |-> FALSE])
  /\ UNCHANGED <<argc, i, exit_code, cpc, global_stats, nfiles, seen, unread>>
  /\ UNCHANGED fileHist
  /\ UNCHANGED scanVars
  /\ UNCHANGED toolVars

\* process_directory: readdir returns NULL or the loop was left by break:
\* closedir, return result.  The caller is process_directory (it keeps the
\* result and leaves its loop unless it is CLOC_SUCCESS) or main.
DirReturn ==
  /\ cpc = "dir"
  /\ Top.brk \/ Top.left = 0
  /\ unread' = unread + Top.left
  /\ IF Len(stack) > 1
     THEN /\ stack' = [SubSeq(stack, 1, Len(stack) - 1)
                         EXCEPT ![Len(stack) - 1].result = Top.result,
                                ![Len(stack) - 1].brk = (Top.result # CLOC_SUCCESS)]
          /\ UNCHANGED <<i, exit_code, cpc>>
     ELSE /\ stack' = <<>>
          /\ exit_code' = IF Top.result # CLOC_SUCCESS THEN 1 ELSE exit_code
          /\ i' = i + 1
          /\ cpc' = "main"
  /\ UNCHANGED <<argc, global_stats, nfiles, seen>>
  /\ UNCHANGED fileHist
  /\ UNCHANGED scanVars
  /\ UNCHANGED toolVars

\* main: the loop is over: print_stats, cloc_cleanup, return exit_code
MainExit ==
  /\ cpc = "main"
  /\ i >= argc
  /\ cpc' = "exit"
  /\ UNCHANGED <<argc, i, exit_code, stack, global_stats, nfiles, seen, unread>>
  /\ UNCHANGED fileHist
  /\ UNCHANGED scanVars
  /\ UNCHANGED toolVars

NextCloc ==
  \/ MainUsage
  \/ MainInit
  \/ MainStatFails
  \/ MainFile
  \/ MainDirectory
  \/ DirSkip
  \/ DirFile
  \/ DirSubdir
  \/ DirReturn
  \/ MainExit

SpecCloc == InitCloc /\ [][NextCloc]_vars

(***************************************************************************)
(* detect_language on its own: every path of the catalogue below with      *)
(* every content, a file that opens or not, a malloc that succeeds or not. *)
(***************************************************************************)
\* n bytes 'x'
Filler(n) == [k \in 1..n |-> 120]

\* "a" followed by each extension of the table; names without a known
\* extension
KnownPaths ==
  UNION {{<<"a">> \o languages[l].extensions[e] :
            e \in 1..Len(languages[l].extensions)} : l \in 1..NumLanguages}

UnknownPaths ==
  { <<"R", "E", "A", "D", "M", "E">>, <<"a", ".", "C">>, <<"a", ".", "H">>,
    <<"a", ".", "t", "x", "t">>, <<"a", ".", "h", ".", "o">> }

\* The contents sniffed: each keyword alone, text without a keyword, the
\* empty file, a keyword after a NUL byte, and a keyword that ends at byte
\* 4096, that straddles it, and that starts after it
DetContents ==
  {cpp_keywords[w] : w \in 1..Len(cpp_keywords)} \cup
  { Text_x, <<>>, <<0>> \o cpp_keywords[1], <<120, 0>> \o cpp_keywords[10],
    Filler(MAX_EXAMINE_SIZE - 5) \o cpp_keywords[1],
    Filler(MAX_EXAMINE_SIZE - 4) \o cpp_keywords[1],
    Filler(MAX_EXAMINE_SIZE) \o cpp_keywords[1] }

InitDetect ==
  /\ ScanIdle
  /\ argc = 1
  /\ ClocIdle
  /\ CfIdle /\ DfIdle /\ HxIdle /\ CkIdle
  /\ \E path \in KnownPaths \cup UnknownPaths, content \in DetContents,
        o \in BOOLEAN, m \in BOOLEAN :
       det = [pc |-> "call", path |-> path,
              f |-> [File(path, content) EXCEPT !.open_ok = o,
                                                !.malloc_ok = m],
              language |-> 0]

\* detect_language(path) returns
Detect ==
  /\ det.pc = "call"
  /\ det' = [det EXCEPT !.pc = "done",
                        !.language = detect_language(det.path, det.f)]
  /\ UNCHANGED <<cf, df, hx, ck>>
  /\ UNCHANGED scanVars
  /\ UNCHANGED clocVars

NextDetect == Detect

SpecDetect == InitDetect /\ [][NextDetect]_vars

(***************************************************************************)
(* countfile: main over its arguments; count_file, count_fd, count_mmap    *)
(* and count_read on each.  What open, fstat, mmap and read report is      *)
(* chosen when the call is made.                                           *)
(***************************************************************************)
COUNTFILE_BUF_SIZE == 16384
COUNTFILE_SUCCESS == 0
COUNTFILE_ERROR_IO == -1
COUNTFILE_ERROR_MEM == -2
COUNTFILE_ERROR_ARG == -3

error_messages ==
  <<"Success", "I/O error", "Memory allocation failed", "Invalid argument">>

\* count_strerror; error_messages[k + 1] is the C entry error_messages[k]
count_strerror(error) ==
  IF -error < 0 \/ -error >= Len(error_messages) THEN "Unknown error"
  ELSE error_messages[-error + 1]

ZeroCounts == [lines |-> 0, words |-> 0, chars |-> 0, bytes |-> 0]

\* *stats after init_stats
init_stats ==
  [filename |-> NULL, size |-> 0, error |-> COUNTFILE_SUCCESS,
   counts |-> ZeroCounts]

is_word_separator(c) == isspace(c)

\* The body of the loop of count_buffer on the byte c; t holds *stats and
\* *in_word
CountByte(t, c) ==
  [counts |->
     [lines |-> t.counts.lines + (IF c = NL THEN 1 ELSE 0),
      words |-> t.counts.words +
                  (IF ~is_word_separator(c) /\ ~t.in_word THEN 1 ELSE 0),
      chars |-> t.counts.chars + 1,
      bytes |-> t.counts.bytes + 1],
   in_word |-> ~is_word_separator(c)]

\* The loop of count_buffer over b[lo..hi], in order: the first half, then
\* the second half from where the first one ended (the test on first only
\* makes the first half be evaluated before the second)
RECURSIVE CountRange(_, _, _, _)
CountRange(t, b, lo, hi) ==
  IF lo > hi THEN t
  ELSE IF lo = hi THEN CountByte(t, b[lo])
  ELSE LET mid == (lo + hi) \div 2
           first == CountRange(t, b, lo, mid)
       IN IF first.in_word \in BOOLEAN
          THEN CountRange(first, b, mid + 1, hi)
          ELSE first

\* count_buffer starting every call outside a word
count_buffer_ResetInWord(b, t) ==
  CountRange([t EXCEPT !.in_word = FALSE], b, 1, Len(b))

\* count_buffer(buf, size, stats, in_word): *stats and *in_word after it
count_buffer(b, t) == CountRange(t, b, 1, Len(b))

\* print_stats: the row written, its trailing name NULL when there is none
print_stats(stats) == [counts |-> stats.counts, name |-> stats.filename]

\* The bytes a file can hold: 'x', space and newline
CfAlphabet == {120, 32, NL}

\* A file of more than COUNTFILE_BUF_SIZE bytes: "x x\n" after a filler
LargeContent == Filler(COUNTFILE_BUF_SIZE - 2) \o <<32, 120, NL>>

CfContents ==
  UNION {[1..n -> CfAlphabet] : n \in 0..MaxBytes} \cup {LargeContent}

\* The name of the k-th argument
CfName(k) == <<"f1", "f2", "f3", "f4">>[k]

CfStart(n) ==
  [pc |-> "main", argc |-> n, i |-> 1, filename |-> NULL, content |-> <<>>,
   fstat_ok |-> TRUE, is_reg |-> TRUE, pos |-> 0, in_word |-> FALSE,
   reads |-> 0, stats |-> init_stats, result |-> COUNTFILE_SUCCESS,
   total |-> ZeroCounts, files |-> 0, out |-> <<>>, msgs |-> <<>>,
   exit_code |-> 0]

InitCount ==
  /\ ScanIdle
  /\ argc = 1
  /\ ClocIdle
  /\ DetIdle /\ DfIdle /\ HxIdle /\ CkIdle
  /\ \E n \in 1..(MaxArgs + 1) : cf = CfStart(n)

CfOthers ==
  /\ UNCHANGED <<det, df, hx, ck>>
  /\ UNCHANGED scanVars
  /\ UNCHANGED clocVars

\* main calls count_file, on NULL when argc < 2 and on argv[i] otherwise:
\* init_stats, the filename, and open.  When open fails count_file sets
\* stats->error and returns; otherwise it calls count_fd.
CfCountFile ==
  /\ cf.pc = "main"
  /\ cf.argc < 2 \/ cf.i < cf.argc
  /\ \E open_ok \in BOOLEAN, content \in CfContents, reg \in BOOLEAN,
        st \in BOOLEAN :
       LET name == IF cf.argc < 2 THEN NULL ELSE CfName(cf.i)
           s0 == [init_stats EXCEPT !.filename = name]
       IN IF name # NULL /\ ~open_ok
          THEN cf' = [cf EXCEPT !.pc = "returned", !.filename = name,
                                !.stats = [s0 EXCEPT !.error = COUNTFILE_ERROR_IO],
                                !.result = COUNTFILE_ERROR_IO]
          ELSE /\ Len(content) > MaxBytes => reg /\ st
               /\ cf' = [cf EXCEPT !.pc = "count_fd", !.filename = name,
                                   !.stats = s0, !.content = content,
                                   !.is_reg = reg, !.fstat_ok = st,
                                   !.pos = 0, !.in_word = FALSE,
                                   !.reads = 0]
  /\ CfOthers

\* count_fd: init_stats, fstat, and the choice between count_mmap and
\* count_read.  When fstat fails st is not initialised and either may be
\* taken.
CfCountFd ==
  /\ cf.pc = "count_fd"
  /\ \E mapped \in BOOLEAN :
       /\ cf.fstat_ok =>
            mapped = (cf.is_reg /\ Len(cf.content) > COUNTFILE_BUF_SIZE)
       /\ cf' = [cf EXCEPT
                   !.pc = IF mapped THEN "count_mmap" ELSE "count_read",
                   !.stats = IF cf.fstat_ok
                             THEN [init_stats EXCEPT !.size = Len(cf.content)]
                             ELSE init_stats]
  /\ CfOthers

\* count_mmap: mmap fails, or count_buffer runs over the whole file
CfCountMmap ==
  /\ cf.pc = "count_mmap"
  /\ \E mmap_ok \in BOOLEAN :
       IF mmap_ok
       THEN LET t == count_buffer(cf.content,
                                  [counts |-> cf.stats.counts, in_word |-> FALSE])
            IN cf' = [cf EXCEPT !.pc = "returned", !.stats.counts = t.counts,
                                !.in_word = t.in_word,
                                !.pos = Len(cf.content),
                                !.result = COUNTFILE_SUCCESS]
       ELSE cf' = [cf EXCEPT !.pc = "returned",
                             !.result = COUNTFILE_ERROR_IO]
  /\ CfOthers

\* count_read: one call of read.  It fails, or returns 0 at the end of the
\* input, or returns the next nread bytes, which count_buffer takes; reads
\* counts the calls that returned bytes.
CfCountRead ==
  /\ cf.pc = "count_read"
  /\ \/ cf' = [cf EXCEPT !.pc = "returned", !.result = COUNTFILE_ERROR_IO]
     \/ /\ cf.pos = Len(cf.content)
        /\ cf' = [cf EXCEPT !.pc = "returned", !.result = COUNTFILE_SUCCESS]
     \/ \E nread \in 1..Min(Len(cf.content) - cf.pos, COUNTFILE_BUF_SIZE) :
          LET t == count_buffer(SubSeq(cf.content, cf.pos + 1, cf.pos + nread),
                                [counts |-> cf.stats.counts,
                                 in_word |-> cf.in_word])
          IN cf' = [cf EXCEPT !.stats.counts = t.counts,
                              !.in_word = t.in_word, !.pos = @ + nread,
                              !.reads = @ + 1]
  /\ CfOthers

\* main after count_file returned: on an error the message with
\* count_strerror(stats.error) and exit_code = 1 (return 1 for stdin); on
\* success print_stats, and for an argument the totals
CfReturned ==
  /\ cf.pc = "returned"
  /\ IF cf.result # COUNTFILE_SUCCESS
     THEN cf' = [cf EXCEPT
                   !.pc = IF cf.argc < 2 THEN "exit" ELSE "main",
                   !.msgs = Append(@, count_strerror(cf.stats.error)),
                   !.exit_code = 1,
                   !.i = @ + 1]
     ELSE cf' = [cf EXCEPT
                   !.pc = IF cf.argc < 2 THEN "exit" ELSE "main",
                   !.out = Append(@, print_stats(cf.stats)),
                   !.total =
                     IF cf.argc < 2 THEN @
                     ELSE [lines |-> @.lines + cf.stats.counts.lines,
                           words |-> @.words + cf.stats.counts.words,
                           chars |-> @.chars + cf.stats.counts.chars,
                           bytes |-> @.bytes + cf.stats.counts.bytes],
                   !.files = IF cf.argc < 2 THEN @ ELSE @ + 1,
                   !.i = @ + 1]
  /\ CfOthers

\* main after its loop: the row of the totals when files > 1, return
CfExit ==
  /\ cf.pc = "main"
  /\ cf.argc >= 2 /\ cf.i >= cf.argc
  /\ cf' = [cf EXCEPT
              !.pc = "exit",
              !.out = IF cf.files > 1
                      THEN Append(@, [counts |-> cf.total,
                                      name |-> "total"])
                      ELSE @]
  /\ CfOthers

NextCount ==
  \/ CfCountFile
  \/ CfCountFd
  \/ CfCountMmap
  \/ CfCountRead
  \/ CfReturned
  \/ CfExit

SpecCount == InitCount /\ [][NextCount]_vars

(***************************************************************************)
(* diff: compare_files on two files, under the options main has set.  What *)
(* fopen and malloc report is chosen when the call is made.  The lines     *)
(* printed are left out.                                                   *)
(***************************************************************************)
DIFF_SAME == 0
DIFF_DIFFERENT == 1
DIFF_ERROR == 2

\* The byte normalize_line stores for the byte c
NormByte(c, ignore_case) ==
  IF ignore_case /\ c >= 65 /\ c <= 90 THEN c + 32 ELSE c

\* The loop of normalize_line from byte k of line on
RECURSIVE NormFrom(_, _, _, _)
NormFrom(line, k, ignore_case, ignore_whitespace) ==
  IF k > Len(line) THEN <<>>
  ELSE IF ignore_whitespace /\ (line[k] = 32 \/ line[k] = 9)
  THEN NormFrom(line, k + 1, ignore_case, ignore_whitespace)
  ELSE <<NormByte(line[k], ignore_case)>> \o
         NormFrom(line, k + 1, ignore_case, ignore_whitespace)

\* normalize_line on a line that malloc serves: the string returned
normalize_line(line, ignore_case, ignore_whitespace) ==
  NormFrom(CString(line), 1, ignore_case, ignore_whitespace)

\* The lines getline returns: "a\n", "A\n", " a\n", "b\n"
DfLines == {<<97, NL>>, <<65, NL>>, <<32, 97, NL>>, <<98, NL>>}

DfFiles == UNION {[1..n -> DfLines] : n \in 0..MaxLines}

InitDiff ==
  /\ ScanIdle
  /\ argc = 1
  /\ ClocIdle
  /\ DetIdle /\ CfIdle /\ HxIdle /\ CkIdle
  /\ \E f1 \in DfFiles, f2 \in DfFiles, ic \in BOOLEAN, iw \in BOOLEAN :
       df = [pc |-> "open", ignore_case |-> ic, ignore_whitespace |-> iw,
             file1 |-> f1, file2 |-> f2, opened |-> FALSE,
             n1 |-> 0, n2 |-> 0, line_num |-> 1,
             differences |-> 0, result |-> 0, ret |-> 0]

DfOthers ==
  /\ UNCHANGED <<det, cf, hx, ck>>
  /\ UNCHANGED scanVars
  /\ UNCHANGED clocVars

\* compare_files: the two calls of fopen; when one fails, return 2
DfOpen ==
  /\ df.pc = "open"
  /\ \E open1 \in BOOLEAN, open2 \in BOOLEAN :
       IF open1 /\ open2
       THEN df' = [df EXCEPT !.pc = "loop", !.opened = TRUE]
       ELSE df' = [df EXCEPT !.pc = "done", !.ret = 2]
  /\ DfOthers

\* One iteration of `while (1)`: the two calls of getline, and what follows
DfIterate ==
  /\ df.pc = "loop"
  /\ LET eof1 == df.n1 >= Len(df.file1)
         eof2 == df.n2 >= Len(df.file2)
         read == [df EXCEPT !.n1 = IF eof1 THEN @ ELSE @ + 1,
                            !.n2 = IF eof2 THEN @ ELSE @ + 1]
     IN IF eof1 /\ eof2
        THEN df' = [df EXCEPT !.pc = "after"]
        ELSE IF eof1 \/ eof2
        THEN df' = [read EXCEPT !.differences = 1, !.line_num = @ + 1]
        ELSE \E malloc1 \in BOOLEAN, malloc2 \in BOOLEAN :
               IF ~malloc1 \/ ~malloc2
               THEN df' = [read EXCEPT !.result = 2, !.pc = "after"]
               ELSE LET norm1 == normalize_line(df.file1[df.n1 + 1],
                                                df.ignore_case,
                                                df.ignore_whitespace)
                        norm2 == normalize_line(df.file2[df.n2 + 1],
                                                df.ignore_case,
                                                df.ignore_whitespace)
                    IN df' = [read EXCEPT
                                !.differences = IF norm1 # norm2 THEN 1 ELSE @,
                                !.line_num = @ + 1]
  /\ DfOthers

\* compare_files after the loop: `return differences ? 1 : 0`
DfReturn ==
  /\ df.pc = "after"
  /\ df' = [df EXCEPT !.pc = "done",
                      !.ret = IF df.differences # 0 THEN 1 ELSE 0]
  /\ DfOthers

NextDiff == DfOpen \/ DfIterate \/ DfReturn

SpecDiff == InitDiff /\ [][NextDiff]_vars

(***************************************************************************)
(* hexdump: main over its options, hexdump_file on standard input or on    *)
(* one file.  The output is the sequence of the bytes written to stdout.   *)
(* What fopen, fseeko and fread report is chosen when the call is made.    *)
(***************************************************************************)
bytes_per_line == 16

\* The character of the digit d, 0..15, in lower case
DigitChar(d) == IF d < 10 THEN 48 + d ELSE 87 + d

\* v in the given base, padded with zeros to n digits: %08lx, %02x, %05u
RECURSIVE Digits(_, _, _)
Digits(v, n, base) ==
  IF n = 0 THEN <<>>
  ELSE Digits(v \div base, n - 1, base) \o <<DigitChar(v % base)>>

\* The concatenation of the sequences of ss, in order
RECURSIVE Flatten(_)
Flatten(ss) == IF ss = <<>> THEN <<>> ELSE Head(ss) \o Flatten(Tail(ss))

isprint(c) == c >= 32 /\ c <= 126

\* print_hex_line(data, len, offset), data holding the len bytes
print_hex_line(data, offset) ==
  Digits(offset, 8, 16) \o <<32, 32>> \o
  Flatten([k \in 1..bytes_per_line |->
             (IF k - 1 < Len(data) THEN Digits(data[k], 2, 16) ELSE <<32, 32>>)
             \o (IF (k - 1) % 2 = 1 THEN <<32>> ELSE <<>>)
             \o (IF k - 1 = 7 THEN <<32>> ELSE <<>>)]) \o
  <<32, 124>> \o
  [k \in 1..Min(Len(data), bytes_per_line) |->
     IF isprint(data[k]) THEN data[k] ELSE 46] \o
  <<124, NL>>

\* print_one_byte_hex(data, len, offset)
print_one_byte_hex(data, offset) ==
  Flatten([k \in 1..Len(data) |->
             (IF (k - 1) % 16 = 0
              THEN Digits(offset + k - 1, 8, 16) \o <<32>> ELSE <<>>)
             \o <<32>> \o Digits(data[k], 2, 16)
             \o (IF k % 16 = 0 \/ k = Len(data) THEN <<NL>> ELSE <<>>)])

\* print_two_byte_decimal(data, len, offset); the k-th round has i = 2(k-1)
print_two_byte_decimal(data, offset) ==
  Flatten([k \in 1..((Len(data) + 1) \div 2) |->
             LET j == 2 * (k - 1)
             IN (IF j % 16 = 0
                 THEN Digits(offset + j, 8, 16) \o <<32>> ELSE <<>>)
                \o <<32>>
                \o (IF j + 1 < Len(data)
                    THEN Digits((data[j + 2] * 256 + data[j + 1]) % 65536, 5, 10)
                    ELSE Digits(data[j + 1], 5, 10))
                \o (IF (j + 2) % 16 = 0 \/ j + 2 >= Len(data)
                    THEN <<NL>> ELSE <<>>)])

\* The loop `for (i = 0; i < bytes_read; i += bytes_per_line)` over
\* print_hex_line
HexLines(data, offset) ==
  Flatten([k \in 1..((Len(data) + bytes_per_line - 1) \div bytes_per_line) |->
             LET j == bytes_per_line * (k - 1)
             IN print_hex_line(
                  SubSeq(data, j + 1, Min(j + bytes_per_line, Len(data))),
                  offset + j)])

\* What the body of the loop of hexdump_file writes for the bytes read,
\* under the flags h
DumpChunk(h, data, offset) ==
  IF h.canonical_format THEN HexLines(data, offset)
  ELSE IF h.one_byte_hex THEN print_one_byte_hex(data, offset)
  ELSE IF h.two_byte_decimal THEN print_two_byte_decimal(data, offset)
  ELSE HexLines(data, offset)

\* The options of a command line: the letter and, for -s and -n, the number
\* strtoll returns; "?" is an option getopt_long rejects
Opt(c, arg) == [c |-> c, arg |-> arg]

HxOptions ==
  { Opt("C", 0), Opt("x", 0), Opt("d", 0), Opt("o", 0), Opt("v", 0),
    Opt("h", 0), Opt("?", 0),
    Opt("s", -1), Opt("s", 1), Opt("n", 0), Opt("n", 1) }

\* The contents dumped: up to MaxBytes bytes, and one of seventeen bytes
HxContents ==
  UNION {[1..n -> {0, 65, 255}] : n \in 0..MaxBytes} \cup
  {[k \in 1..17 |-> 64 + k]}

InitHex ==
  /\ ScanIdle
  /\ argc = 1
  /\ ClocIdle
  /\ DetIdle /\ CfIdle /\ DfIdle /\ CkIdle
  /\ \E opts \in UNION {[1..n -> HxOptions] : n \in 0..MaxOpts},
        operand \in BOOLEAN :
       hx = [pc |-> "getopt", argv |-> opts, given |-> opts,
             operand |-> operand,
             canonical_format |-> FALSE, one_byte_hex |-> FALSE,
             two_byte_decimal |-> FALSE, four_byte_decimal |-> FALSE,
             skip_bytes |-> 0, length_limit |-> 0,
             content |-> <<>>, current_offset |-> 0, out |-> <<>>,
             result |-> 0, exit_code |-> 0]

HxOthers ==
  /\ UNCHANGED <<det, cf, df, ck>>
  /\ UNCHANGED scanVars
  /\ UNCHANGED clocVars

\* main: getopt_long returns the next option
HxGetopt ==
  /\ hx.pc = "getopt"
  /\ hx.argv # <<>>
  /\ LET o == Head(hx.argv)
         rest == [hx EXCEPT !.argv = Tail(@)]
     IN hx' =
          IF o.c = "C" THEN [rest EXCEPT !.canonical_format = TRUE]
          ELSE IF o.c = "x"
          THEN [rest EXCEPT !.one_byte_hex = TRUE, !.canonical_format = FALSE]
          ELSE IF o.c = "d"
          THEN [rest EXCEPT !.two_byte_decimal = TRUE,
                            !.canonical_format = FALSE]
          ELSE IF o.c = "o"
          THEN [rest EXCEPT !.four_byte_decimal = TRUE,
                            !.canonical_format = FALSE]
          ELSE IF o.c = "s"
          THEN IF o.arg < 0
               THEN [rest EXCEPT !.skip_bytes = o.arg, !.pc = "exit",
                                 !.exit_code = 1]
               ELSE [rest EXCEPT !.skip_bytes = o.arg]
          ELSE IF o.c = "n"
          THEN IF o.arg <= 0
               THEN [rest EXCEPT !.length_limit = o.arg, !.pc = "exit",
                                 !.exit_code = 1]
               ELSE [rest EXCEPT !.length_limit = o.arg]
          ELSE IF o.c = "v" THEN rest
          ELSE IF o.c = "h" THEN [rest EXCEPT !.pc = "exit", !.exit_code = 0]
          ELSE [rest EXCEPT !.pc = "exit", !.exit_code = 1]
  /\ HxOthers

\* main after the options: the canonical format when none was chosen, then
\* hexdump_file up to its loop: fopen, and fseeko when skip_bytes > 0
HxOpen ==
  /\ hx.pc = "getopt"
  /\ hx.argv = <<>>
  /\ LET h == [hx EXCEPT !.canonical_format =
                  IF ~hx.canonical_format /\ ~hx.one_byte_hex
                     /\ ~hx.two_byte_decimal /\ ~hx.four_byte_decimal
                  THEN TRUE ELSE @]
     IN \E fopen_ok \in BOOLEAN, fseeko_ok \in BOOLEAN,
           content \in HxContents :
          IF (h.operand /\ ~fopen_ok) \/ (h.skip_bytes > 0 /\ ~fseeko_ok)
          THEN hx' = [h EXCEPT !.pc = "exit", !.result = 1, !.exit_code = 1]
          ELSE hx' = [h EXCEPT !.pc = "read", !.content = content,
                               !.current_offset = h.skip_bytes]
  /\ HxOthers

\* hexdump_file: one call of fread and, when it returns bytes, the body of
\* the loop; when it returns 0, ferror and the return to main
HxRead ==
  /\ hx.pc = "read"
  /\ LET avail == IF hx.current_offset >= Len(hx.content) THEN 0
                  ELSE Min(Len(hx.content) - hx.current_offset, 4096)
         done == hx.current_offset - hx.skip_bytes
         bytes_read == IF hx.length_limit > 0
                          /\ done + avail > hx.length_limit
                       THEN hx.length_limit - done ELSE avail
         data == SubSeq(hx.content, hx.current_offset + 1,
                        hx.current_offset + bytes_read)
     IN IF avail = 0
        THEN \E ferror \in BOOLEAN :
               hx' = [hx EXCEPT !.pc = "exit",
                                !.result = IF ferror THEN 1 ELSE 0,
                                !.exit_code = IF ferror THEN 1 ELSE 0]
        ELSE hx' = [hx EXCEPT
                      !.out = @ \o DumpChunk(hx, data, hx.current_offset),
                      !.current_offset = @ + bytes_read,
                      !.pc = IF hx.length_limit > 0
                                /\ done + bytes_read >= hx.length_limit
                             THEN "exit" ELSE "read"]
  /\ HxOthers

NextHex == HxGetopt \/ HxOpen \/ HxRead

SpecHex == InitHex /\ [][NextHex]_vars

(***************************************************************************)
(* Lines of a buffer, for the statements about count_lines.  A newline     *)
(* byte belongs to the line it ends; the bytes after the last newline, if  *)
(* any, are the final line.                                                *)
(***************************************************************************)
LineNo(b, q) == Cardinality({j \in 1..(q - 1) : b[j] = NL}) + 1

NumLines(b) == LineNo(b, Len(b))

\* The positions of the content of line k (its newline excluded)
LineBytes(b, k) == {q \in 1..Len(b) : LineNo(b, q) = k /\ b[q] # NL}

WhitespaceOnly(b, k) == \A q \in LineBytes(b, k) : isspace(b[q])

\* Byte q lies in an occurrence of one of the comment markers of l
InMarker(b, q, l) ==
  \E m \in {l.line_comment, l.block_start, l.block_end} :
    \E j \in 1..q : q < j + Len(m) /\ MarkerAt(b, j - 1, m)

\* Line k starts with the line-comment marker of l
LineCommentLine(b, k, l) ==
  /\ LineBytes(b, k) # {}
  /\ \E q \in LineBytes(b, k) :
       /\ \A j \in LineBytes(b, k) : q <= j
       /\ MarkerAt(b, q - 1, l.line_comment)

\* No quote and no block-comment start on the lines before line k, so that
\* line k begins outside any string and any block comment
CleanBefore(b, k, l) ==
  \A q \in 1..Len(b) :
    LineNo(b, q) < k => b[q] \notin {DQ, SQ} /\ ~MarkerAt(b, q - 1, l.block_start)

Sum(s) == s.lines_code + s.lines_comment + s.lines_blank

Counts(s) == <<s.lines_code, s.lines_comment, s.lines_blank>>

\* The byte under the cursor is handled by the end-of-line branch
AtEndOfLine == sc.p < Len(buf) /\ (buf[sc.p + 1] = NL \/ sc.p = Len(buf) - 1)

(***************************************************************************)
(* C1.  For every non-empty buffer and every syntax, after count_lines     *)
(* the sum lines_code + lines_comment + lines_blank is the number of lines *)
(* of the buffer.  Violated: a final line without newline that ends in a   *)
(* comment marker and has no code before it is not counted at all.         *)
(***************************************************************************)
C1_SumIsLineCount == pc = "done" => Sum(sc) = NumLines(buf)

(***************************************************************************)
(* C3.  A block comment that starts on line 1 and ends on line 3, with     *)
(* only whitespace after the end marker: all three lines are comment       *)
(* lines.  Violated: the line of the end marker is counted blank.          *)
(***************************************************************************)
C3_BlockEndLineIsComment ==
  (pc = "done" /\ lang = 1 /\ buf \in {BlockThreeLines, BlankInBlock})
    => sc.cls = <<"comment", "comment", "comment">>

(***************************************************************************)
(* C4.  With C syntax "/* start\nmid\nend */ x();\n" gives comment = 2     *)
(* (lines 1 and 2), code = 1 (line 3), blank = 0.                          *)
(***************************************************************************)
C4_CodeAfterBlockEnd ==
  (pc = "done" /\ lang = 1 /\ buf = BlockThenCode)
    => /\ sc.cls = <<"comment", "comment", "code">>
       /\ Counts(sc) = <<1, 2, 0>>

C4_Witness == pc = "done" /\ lang = 1 /\ buf = BlockThenCode /\ sc.lines_code = 1

(***************************************************************************)
(* C5.  A line is counted blank only if each of its bytes is whitespace or *)
(* part of a comment marker.  Violated: a one-byte buffer "x" is counted   *)
(* blank, the end-of-line branch taking the final byte before it is looked *)
(* at.                                                                     *)
(***************************************************************************)
C5_BlankHasNoContent ==
  \A k \in 1..Len(sc.cls) :
    sc.cls[k] = "blank" =>
      \A q \in LineBytes(buf, k) :
        isspace(buf[q]) \/ InMarker(buf, q, languages[lang])

(***************************************************************************)
(* C6.  With C syntax a string literal that contains a comment marker is   *)
(* code: a line made of one double-quoted string without escapes is a code *)
(* line and no comment line, and no step that starts inside a string       *)
(* enters a comment state.                                                 *)
(***************************************************************************)
\* b is one line holding one double-quoted string and nothing else
OneStringLine(b) ==
  /\ b[1] = DQ
  /\ \E e \in 2..Len(b) :
       /\ b[e] = DQ
       /\ \A q \in 2..(e - 1) : b[q] \notin {DQ, BSL, NL}
       /\ e = Len(b) \/ (e = Len(b) - 1 /\ b[Len(b)] = NL)

C6_StringLineIsCode ==
  (pc = "done" /\ lang = 1 /\ OneStringLine(buf))
    => sc.cls = <<"code">> /\ sc.lines_comment = 0

C6_NoCommentFromString ==
  (lang = 1 /\ sc.in_string)
    => ~sc'.in_block_comment /\ ~sc'.in_line_comment

C6_StringMarkerIsCode ==
  [](C6_StringLineIsCode) /\ [][C6_NoCommentFromString]_vars

C6_Witness ==
  /\ pc = "done" /\ lang = 1 /\ buf = StringWithLineMarker
  /\ sc.cls = <<"code">>

(***************************************************************************)
(* C7.  Inside a string opened by quote q a byte ends the string if and    *)
(* only if it is q and the byte before it is not a backslash.              *)
(* As stated this fails on the final byte of the buffer, which the         *)
(* end-of-line branch takes before the string block is reached.            *)
(***************************************************************************)
\* The byte under the cursor is the remembered quote, not after a backslash
ClosingQuote == buf[sc.p + 1] = sc.string_char /\ buf[sc.p] # BSL

C7_StringEndsIffUnescapedQuote ==
  [][(pc = "loop" /\ sc.in_string /\ sc.p < Len(buf))
       => (~sc'.in_string <=> ClosingQuote)]_vars

\* Amended: the same for every byte but the final byte of the buffer, which
\* never ends the string.
C7_StringEndsIffUnescapedQuoteNotLast ==
  [][(pc = "loop" /\ sc.in_string /\ sc.p < Len(buf))
       => /\ sc.p < Len(buf) - 1 => (~sc'.in_string <=> ClosingQuote)
          /\ sc.p = Len(buf) - 1 => sc'.in_string
          /\ sc'.string_char = sc.string_char]_vars

\* The string of "a\"b" x is closed by its third quote, not by the escaped one
C7_Witness ==
  /\ lang = 1 /\ buf = EscapedQuote
  /\ sc.p = 6 /\ ~sc.in_string /\ sc.string_char = DQ

(***************************************************************************)
(* C8.  A line that consists of the line-comment marker followed by text   *)
(* is classified comment.  Stated for the lines that begin outside any     *)
(* string and block comment.  Violated: a final line without newline that  *)
(* is the marker alone is counted blank (one-byte marker) or not counted   *)
(* at all.                                                                 *)
(***************************************************************************)
C8_LineCommentLineIsComment ==
  pc = "done" =>
    \A k \in 1..NumLines(buf) :
      (LineCommentLine(buf, k, languages[lang]) /\ CleanBefore(buf, k, languages[lang]))
        => k <= Len(sc.cls) /\ sc.cls[k] = "comment"

(***************************************************************************)
(* C9.  A line that contains only whitespace is classified blank.          *)
(* As stated this fails inside a block comment, where the end-of-line      *)
(* branch tests in_block_comment before has_code.                          *)
(***************************************************************************)
C9_WhitespaceLineIsBlank ==
  pc = "done" =>
    \A k \in 1..NumLines(buf) :
      WhitespaceOnly(buf, k) => k <= Len(sc.cls) /\ sc.cls[k] = "blank"

\* Amended: every whitespace-only line is classified, as comment when a
\* block comment is open at its end and as blank otherwise.
C9_EveryWhitespaceLineClassified ==
  pc = "done" =>
    \A k \in 1..NumLines(buf) : WhitespaceOnly(buf, k) => k <= Len(sc.cls)

C9_WhitespaceLineStep ==
  (pc = "loop" /\ AtEndOfLine /\ WhitespaceOnly(buf, LineNo(buf, sc.p + 1)))
    => sc'.cls = Append(sc.cls, IF sc.in_block_comment THEN "comment" ELSE "blank")

C9_WhitespaceLineIsBlankOutsideBlock ==
  [](C9_EveryWhitespaceLineClassified) /\ [][C9_WhitespaceLineStep]_vars

C9_Witness ==
  /\ pc = "done" /\ buf = CodeBlankComment /\ WhitespaceOnly(buf, 2)
  /\ sc.cls[2] = "blank"

(***************************************************************************)
(* C2.  Each file processed with success is aggregated under its own       *)
(* detected language: the entry of global_stats named after language L     *)
(* holds exactly the tally of the files detected as L.  Violated: the      *)
(* callback indexes languages by the language id, which is one more than   *)
(* the index of the language, so a C file is added to the entry "C++".     *)
(***************************************************************************)
C2_AggregatedUnderOwnLanguage ==
  \A l \in 1..NumLanguages :
    LET rows == {k \in 1..Len(global_stats) :
                   global_stats[k].name = languages[l].name}
    IN IF seen[l].files = 0 THEN rows = {}
       ELSE \E k \in rows :
              [files |-> global_stats[k].files,
               lines_code |-> global_stats[k].lines_code,
               lines_comment |-> global_stats[k].lines_comment,
               lines_blank |-> global_stats[k].lines_blank,
               bytes |-> global_stats[k].bytes] = seen[l]

(***************************************************************************)
(* C10.  A failure on one entry does not abort the scan: no entry of a     *)
(* directory being traversed is left unread, and main returns only after   *)
(* its last argument.  Violated: a subdirectory that cannot be opened      *)
(* makes process_directory leave the loop over the parent's entries.       *)
(***************************************************************************)
C10_FailureDoesNotAbortScan ==
  /\ unread = 0
  /\ cpc = "exit" => i = argc

(***************************************************************************)
(* C11.  The exit status reflects failures: when some file of the run,     *)
(* named on the command line or met inside a scanned directory, failed     *)
(* with an open, I/O or mmap error, main returns a nonzero status.         *)
(* Violated: process_directory drops the value process_file returns for a  *)
(* file that failed, so main returns 0.                                    *)
(***************************************************************************)
C11_ExitStatusReflectsFailures ==
  cpc = "exit" /\ failed => exit_code # 0

(***************************************************************************)
(* C12.  A file whose language cannot be identified is skipped: the call   *)
(* of process_file returns CLOC_ERROR_ARG without reaching count_lines and *)
(* with all counters zero, and the step that met the file leaves every     *)
(* aggregate entry as it was.                                              *)
(***************************************************************************)
C12_UnknownLanguageSkipped ==
  /\ [](last.called /\ ~last.known =>
          /\ last.result = CLOC_ERROR_ARG
          /\ ~last.scanned
          /\ last.size = 0
          /\ last.lines_code = 0 /\ last.lines_comment = 0
          /\ last.lines_blank = 0)
  /\ [][nfiles' = nfiles + 1 /\ ~last'.known =>
          global_stats' = global_stats /\ seen' = seen]_vars

\* A file without a known language was met after a file was aggregated,
\* inside a directory
C12_Witness ==
  /\ last.called /\ ~last.known
  /\ global_stats # <<>>
  /\ cpc = "dir"

(***************************************************************************)
(* C16.  A zero-length file of a known language that is opened and whose   *)
(* size fstat reports: process_file returns CLOC_SUCCESS with              *)
(* lines_code = lines_comment = lines_blank = 0 and size 0, and            *)
(* count_lines is not reached.                                             *)
(***************************************************************************)
C16_EmptyFileAllZero ==
  last.called /\ last.known /\ last.opened /\ last.st_size = 0 =>
    /\ last.result = CLOC_SUCCESS
    /\ ~last.scanned
    /\ last.size = 0
    /\ last.lines_code = 0 /\ last.lines_comment = 0 /\ last.lines_blank = 0

\* The zero-length file was processed and aggregated
C16_Witness ==
  /\ last.called /\ last.known /\ last.opened /\ last.st_size = 0
  /\ \E k \in 1..Len(global_stats) :
       global_stats[k].files > 0 /\ global_stats[k].bytes = 0

(***************************************************************************)
(* C13.  A .h file is given the C++ syntax if and only if it can be opened *)
(* and one of the C++ keywords occurs within the first 4096 bytes of its   *)
(* content, and the C syntax otherwise; every other known extension maps   *)
(* to the language that lists it.  Violated: the prefix is searched with   *)
(* strstr, which stops at the first NUL byte, so a keyword after a NUL     *)
(* byte is not seen.                                                       *)
(***************************************************************************)
KeywordInPrefix(content) ==
  \E w \in 1..Len(cpp_keywords) :
    strstr(SubSeq(content, 1, Min(Len(content), MAX_EXAMINE_SIZE)),
           cpp_keywords[w])

C13_HeaderIsCppIffKeyword ==
  det.pc = "done" /\ det.f.malloc_ok =>
    LET ext == strrchr_dot(det.path)
    IN IF ext = <<".", "h">>
       THEN det.language =
              IF det.f.open_ok /\ KeywordInPrefix(det.f.content)
              THEN CLOC_LANG_CPP ELSE CLOC_LANG_C
       ELSE \A l \in 1..NumLanguages :
              (\E e \in 1..Len(languages[l].extensions) :
                 languages[l].extensions[e] = ext)
              => det.language = l

(***************************************************************************)
(* C14.  count_lines is total: on every non-empty buffer, NUL bytes        *)
(* included, and every syntax, the cursor never passes the end, every      *)
(* iteration of the loop advances it by at least one byte, and the call    *)
(* goes on until it returns, with the cursor at the end.  The markers of   *)
(* every syntax of the table are non-empty.                                *)
(***************************************************************************)
C14_CountLinesTotal ==
  /\ sc.p <= Len(buf)
  /\ pc = "loop" => ENABLED Next
  /\ pc = "loop" /\ sc.p < Len(buf) =>
       ScanStep(sc, buf, languages[lang]).p >= sc.p + 1
  /\ pc = "done" => sc.p = Len(buf)
  /\ \A m \in {languages[lang].line_comment,
                languages[lang].block_start,
                languages[lang].block_end} : Len(m) >= 1

\* count_lines returned on a buffer of the greatest length that holds a NUL
\* byte, and counted a line
C14_Witness ==
  /\ pc = "done"
  /\ Len(buf) = MaxLen
  /\ \E q \in 1..Len(buf) : buf[q] = 0
  /\ Sum(sc) >= 1

(***************************************************************************)
(* C15.  count_lines never reads outside the buffer: for a buffer of       *)
(* N >= 1 bytes, the byte under the cursor, the bytes compared with a      *)
(* marker, the byte before the cursor looked at in a string, and the last  *)
(* byte looked at after the loop all have an offset in 0..N-1; a marker    *)
(* that would extend beyond the end is not compared and does not match.    *)
(***************************************************************************)
C15_ReadsInsideBuffer ==
  /\ pc = "loop" /\ sc.p < Len(buf) =>
       /\ Reads(sc, buf, languages[lang]) \subseteq 0..(Len(buf) - 1)
       /\ \A m \in {languages[lang].line_comment,
                     languages[lang].block_start,
                     languages[lang].block_end} :
            sc.p + Len(m) > Len(buf) => ~MarkerAt(buf, sc.p, m)
  /\ pc = "loop" /\ sc.p >= Len(buf) =>
       LastReads(sc, buf) \subseteq 0..(Len(buf) - 1)

\* The iteration at hand is outside any string and comment, on a byte 'x'
\* that is the last but one, where the three-byte marker of Python does not
\* fit any more, after an iteration that looked at the byte before the cursor
C15_Witness ==
  /\ pc = "loop" /\ sc.p = Len(buf) - 2
  /\ ~sc.in_string /\ ~sc.in_line_comment /\ ~sc.in_block_comment
  /\ buf[sc.p + 1] = 120
  /\ Len(languages[lang].block_start) = 3
  /\ sc.string_char = DQ /\ buf[sc.p] = DQ

(***************************************************************************)
(* C17.  A buffer of newline-terminated lines, each of them plain code     *)
(* (no quote and no comment marker), whitespace only, or a line comment,   *)
(* is counted one per line in the matching category; "int x = 1;", an      *)
(* empty line and "// comment" with the C syntax give 1 code, 1 blank,     *)
(* 1 comment.                                                              *)
(***************************************************************************)
PlainCodeLine(b, k, l) ==
  /\ ~WhitespaceOnly(b, k)
  /\ \A q \in LineBytes(b, k) : b[q] \notin {DQ, SQ} /\ ~InMarker(b, q, l)

\* The first byte of line k that is no whitespace starts the line-comment
\* marker of l
CommentOnlyLine(b, k, l) ==
  \E q \in LineBytes(b, k) :
    /\ ~isspace(b[q])
    /\ \A j \in LineBytes(b, k) : j < q => isspace(b[j])
    /\ MarkerAt(b, q - 1, l.line_comment)

SimpleLines(b, l) ==
  /\ b[Len(b)] = NL
  /\ \A k \in 1..NumLines(b) :
       \/ PlainCodeLine(b, k, l)
       \/ WhitespaceOnly(b, k)
       \/ CommentOnlyLine(b, k, l)

C17_SimpleLinesCounted ==
  /\ pc = "done" /\ SimpleLines(buf, languages[lang]) =>
       /\ Len(sc.cls) = NumLines(buf)
       /\ \A k \in 1..NumLines(buf) :
            sc.cls[k] = IF PlainCodeLine(buf, k, languages[lang]) THEN "code"
                        ELSE IF WhitespaceOnly(buf, k) THEN "blank"
                        ELSE "comment"
       /\ sc.lines_code =
            Cardinality({k \in 1..NumLines(buf) :
                           PlainCodeLine(buf, k, languages[lang])})
       /\ sc.lines_blank =
            Cardinality({k \in 1..NumLines(buf) : WhitespaceOnly(buf, k)})
       /\ sc.lines_comment =
            Cardinality({k \in 1..NumLines(buf) :
                           CommentOnlyLine(buf, k, languages[lang])})
  /\ pc = "done" /\ buf = CodeBlankComment /\ lang = 1 =>
       /\ SimpleLines(buf, languages[lang])
       /\ sc.lines_code = 1 /\ sc.lines_blank = 1 /\ sc.lines_comment = 1

\* The literal input was counted
C17_Witness ==
  /\ pc = "done" /\ buf = CodeBlankComment /\ lang = 1
  /\ sc.cls = <<"code", "blank", "comment">>

(***************************************************************************)
(* C18.  After count_file returns success for a filename that is not NULL, *)
(* stats->filename is that filename, and the row print_stats writes for a  *)
(* file named on the command line ends with a name.  Violated: count_fd    *)
(* calls init_stats again, which sets stats->filename to NULL.             *)
(***************************************************************************)
C18_FilenameKept ==
  /\ cf.pc = "returned" /\ cf.result = COUNTFILE_SUCCESS
        /\ cf.filename # NULL
       => cf.stats.filename = cf.filename
  /\ cf.argc >= 2 => \A k \in 1..Len(cf.out) : cf.out[k].name # NULL

(***************************************************************************)
(* C19.  Whenever count_file returns an error code, stats->error holds     *)
(* that code, and no message main prints through count_strerror is         *)
(* "Success".  Violated: count_read and count_mmap return                  *)
(* COUNTFILE_ERROR_IO without storing it, after count_fd has reset         *)
(* stats->error to COUNTFILE_SUCCESS.                                      *)
(***************************************************************************)
C19_ErrorCodeStored ==
  /\ cf.pc = "returned" /\ cf.result # COUNTFILE_SUCCESS
       => cf.stats.error = cf.result
  /\ \A k \in 1..Len(cf.msgs) : cf.msgs[k] # "Success"

(***************************************************************************)
(* C20.  compare_files returns 2 whenever an error occurs, when a file     *)
(* cannot be opened and when malloc fails while a line is normalised;      *)
(* otherwise 0 when the two files are the same under the normalisation in  *)
(* force and 1 when they differ.  Violated: on a failed malloc result is   *)
(* set to 2 and the loop is left, but the function returns                 *)
(* differences ? 1 : 0.                                                    *)
(***************************************************************************)
SameNormalized(f1, f2, ic, iw) ==
  /\ Len(f1) = Len(f2)
  /\ \A k \in 1..Len(f1) :
       normalize_line(f1[k], ic, iw) = normalize_line(f2[k], ic, iw)

C20_ReturnValue ==
  df.pc = "done" =>
    df.ret = IF ~df.opened \/ df.result = 2 THEN DIFF_ERROR
             ELSE IF SameNormalized(df.file1, df.file2, df.ignore_case,
                                    df.ignore_whitespace)
             THEN DIFF_SAME
             ELSE DIFF_DIFFERENT

(***************************************************************************)
(* C21.  With -o as its only option hexdump shows the input in a format of *)
(* its own: what it writes for a non-empty input is not what -C writes,    *)
(* and holds no '|' of the ASCII column of the canonical layout.           *)
(* Violated: -o sets four_byte_decimal, which hexdump_file never tests, so *)
(* the lines are written by print_hex_line as for -C.                      *)
(***************************************************************************)
C21_OctalIsOwnFormat ==
  /\ hx.pc = "exit" /\ hx.given = <<Opt("o", 0)>> /\ hx.content # <<>> =>
       /\ hx.out # HexLines(hx.content, 0)
       /\ \A k \in 1..Len(hx.out) : hx.out[k] # 124

(***************************************************************************)
(* C22.  The byte that closes a string is handled by the string-end rule   *)
(* alone: the iteration on it clears in_string and moves the cursor one    *)
(* byte on, and changes nothing else; no comment start is matched on it    *)
(* and has_code is not set on it.  Violated: after in_string is cleared    *)
(* the iteration goes on to the marker tests and to the ordinary-code      *)
(* rule, so the second quote of """" closes the string and, with the       *)
(* Python syntax, starts a block comment on the same byte.                 *)
(***************************************************************************)
C22_StringEndRuleAlone ==
  (/\ pc = "loop" /\ sc.in_string
   /\ sc.p < Len(buf) - 1
   /\ buf[sc.p + 1] # NL
   /\ ClosingQuote)
    => ScanStep(sc, buf, languages[lang]) =
         [sc EXCEPT !.in_string = FALSE, !.p = @ + 1]

(***************************************************************************)
(* C23.  At an end-of-line event, the cursor on a newline or on the final  *)
(* byte, exactly one counter goes up, by one: lines_comment when a line    *)
(* comment or a block comment is open, code before it on the line or not,  *)
(* otherwise lines_code when has_code is set, otherwise lines_blank.       *)
(***************************************************************************)
C23_EndOfLinePrecedence ==
  pc = "loop" /\ AtEndOfLine =>
    LET t == ScanStep(sc, buf, languages[lang])
        kind == IF sc.in_line_comment \/ sc.in_block_comment THEN "comment"
                ELSE IF sc.has_code THEN "code" ELSE "blank"
    IN /\ t.lines_comment = sc.lines_comment + (IF kind = "comment" THEN 1 ELSE 0)
       /\ t.lines_code = sc.lines_code + (IF kind = "code" THEN 1 ELSE 0)
       /\ t.lines_blank = sc.lines_blank + (IF kind = "blank" THEN 1 ELSE 0)
       /\ t.cls = Append(sc.cls, kind)

\* The line x// was counted as a comment line at its newline
C23_Witness ==
  /\ lang = 1 /\ buf = <<120, 47, 47, NL>>
  /\ sc.p = 4 /\ sc.cls = <<"comment">> /\ sc.lines_comment = 1

(***************************************************************************)
(* C24.  An end-of-line event clears has_code and in_line_comment and      *)
(* leaves in_block_comment, in_string and string_char as they were.        *)
(***************************************************************************)
C24_EndOfLineResets ==
  pc = "loop" /\ AtEndOfLine =>
    LET t == ScanStep(sc, buf, languages[lang])
    IN /\ ~t.has_code /\ ~t.in_line_comment
       /\ t.in_block_comment = sc.in_block_comment
       /\ t.in_string = sc.in_string
       /\ t.string_char = sc.string_char
       /\ t.p = sc.p + 1

\* A newline was passed inside a string that had set has_code, or inside a
\* block comment
C24_Witness ==
  /\ pc = "loop" /\ sc.p >= 2 /\ buf[sc.p] = NL
  /\ ~sc.has_code
  /\ \/ sc.in_string /\ sc.string_char = DQ /\ sc.cls = <<"code">>
     \/ sc.in_block_comment /\ sc.cls = <<"comment">>

(***************************************************************************)
(* C25.  The states of the scanner exclude each other: in_line_comment and *)
(* in_block_comment are never both set, and in_string is never set with    *)
(* either; an iteration inside a line comment does not open a block        *)
(* comment, and an iteration inside a block comment does not open a line   *)
(* comment.                                                                *)
(***************************************************************************)
C25_StatesExclusive ==
  /\ ~(sc.in_line_comment /\ sc.in_block_comment)
  /\ ~(sc.in_string /\ (sc.in_line_comment \/ sc.in_block_comment))
  /\ pc = "loop" /\ sc.p < Len(buf) =>
       LET t == ScanStep(sc, buf, languages[lang])
       IN /\ sc.in_line_comment => ~t.in_block_comment /\ ~t.in_string
          /\ sc.in_block_comment => ~t.in_line_comment /\ ~t.in_string

\* Inside the block comment of "/*//" the iteration on the first '/' of the
\* line-comment marker is over and no line comment is open
C25_Witness ==
  /\ lang = 1 /\ buf = <<47, 42, 47, 47>>
  /\ sc.p = 3 /\ sc.in_block_comment /\ ~sc.in_line_comment

(***************************************************************************)
(* C26.  No line is counted twice: the three counters never add up to more *)
(* than the number of lines of the buffer, and the check after the loop    *)
(* adds a code line only when the loop has classified every line but the   *)
(* final one.                                                              *)
(***************************************************************************)
C26_NoLineCountedTwice ==
  /\ Sum(sc) <= NumLines(buf)
  /\ Len(sc.cls) = Sum(sc)
  /\ pc = "loop" /\ sc.p >= Len(buf) /\ LastLine(sc, buf) # sc =>
       /\ Len(sc.cls) = NumLines(buf) - 1
       /\ buf[Len(buf)] # NL

\* The final line of "x/*" was left unclassified by the loop and counted as
\* code by the check after it
C26_Witness ==
  /\ pc = "done" /\ lang = 1 /\ buf = <<120, 47, 42>>
  /\ sc.cls = <<"code">> /\ sc.has_code

\* The maximal runs of non-whitespace bytes of b, by their first bytes
WordStarts(b) ==
  {k \in 1..Len(b) : ~isspace(b[k]) /\ (k = 1 \/ isspace(b[k - 1]))}

\* The newline bytes of b
Newlines(b) == {k \in 1..Len(b) : b[k] = NL}

\* The counts of one pass over the whole of b
OnePass(b) == count_buffer(b, [counts |-> ZeroCounts, in_word |-> FALSE]).counts

(***************************************************************************)
(* C27.  The counts do not depend on how read splits the input: after any  *)
(* sequence of reads count_read holds the counts of one pass over the      *)
(* bytes read so far, and what count_read and count_mmap return for a file *)
(* is the counts of one pass over it, with words the number of maximal     *)
(* runs of non-whitespace bytes and lines the number of newline bytes.     *)
(***************************************************************************)
C27_CountsIndependentOfSplit ==
  /\ cf.pc = "count_read" /\ cf.pos > 0 =>
       cf.stats.counts = OnePass(SubSeq(cf.content, 1, cf.pos))
  /\ cf.pc = "returned" /\ cf.result = COUNTFILE_SUCCESS =>
       /\ cf.stats.counts = OnePass(cf.content)
       /\ cf.stats.counts.words = Cardinality(WordStarts(cf.content))
       /\ cf.stats.counts.lines = Cardinality(Newlines(cf.content))
       /\ cf.stats.counts.bytes = Len(cf.content)

\* "xx\n" came in three reads of one byte, the word across the first two
C27_Witness ==
  /\ cf.pc = "returned" /\ cf.result = COUNTFILE_SUCCESS
  /\ cf.content = <<120, 120, NL>> /\ cf.reads = 3
  /\ cf.stats.counts.words = 1 /\ cf.stats.counts.lines = 1

(***************************************************************************)
(* checksum: main and checksum_file.  A uint32_t is held as its two 16-bit *)
(* halves [hi, lo], so that no intermediate value leaves the integers TLC  *)
(* computes with.  What getopt_long, fopen and fread report is chosen when *)
(* the call is made; returned tells how the last call of checksum_file     *)
(* ended: at fopen, at ferror, or with its line printed.                   *)
(***************************************************************************)
CHECKSUM_CRC32 == 0
CHECKSUM_ADLER32 == 1
CHECKSUM_BSD_SUM == 2

\* sizeof(buffer) in checksum_file
sizeof_buffer == 8192

\* The modulus of Adler-32
ADLER_MOD == 65521

Half == 65536

U32(h, l) == [hi |-> h, lo |-> l]

\* a ^ b and a | b on naturals
RECURSIVE BitXor(_, _)
BitXor(a, b) ==
  IF a = 0 THEN b
  ELSE IF b = 0 THEN a
  ELSE ((a + b) % 2) + 2 * BitXor(a \div 2, b \div 2)

RECURSIVE BitOr(_, _)
BitOr(a, b) ==
  IF a = 0 THEN b
  ELSE IF b = 0 THEN a
  ELSE (IF a % 2 = 1 \/ b % 2 = 1 THEN 1 ELSE 0) + 2 * BitOr(a \div 2, b \div 2)

\* x ^ y on uint32_t
U32Xor(x, y) == U32(BitXor(x.hi, y.hi), BitXor(x.lo, y.lo))

\* x >> n on uint32_t, for n in 1..15
U32Shr(x, n) ==
  U32(x.hi \div (2 ^ n),
      (x.lo \div (2 ^ n)) + (x.hi % (2 ^ n)) * (2 ^ (16 - n)))

\* 0xedb88320L and 0xffffffffL
CRC_POLY == U32(60856, 33568)
ALL_ONES == U32(65535, 65535)

\* The inner loop of make_crc32_table on c, from its k-th round on
RECURSIVE TableRounds(_, _)
TableRounds(c, k) ==
  IF k = 8 THEN c
  ELSE TableRounds(IF c.lo % 2 = 1 THEN U32Xor(CRC_POLY, U32Shr(c, 1))
                   ELSE U32Shr(c, 1),
                   k + 1)

\* make_crc32_table: the table update_crc32 computes on its first call
crc32_table == [n \in 0..255 |-> TableRounds(U32(0, n), 0)]

\* The body of the loop of update_crc32 on the byte x
CrcByte(c, x) ==
  U32Xor(crc32_table[BitXor(c.lo % 256, x)], U32Shr(c, 8))

\* The loop of update_crc32 over b[lo..hi], in order: the first half, then
\* the second half from where the first one ended
RECURSIVE CrcRange(_, _, _, _)
CrcRange(c, b, lo, hi) ==
  IF lo > hi THEN c
  ELSE IF lo = hi THEN CrcByte(c, b[lo])
  ELSE LET mid == (lo + hi) \div 2
           first == CrcRange(c, b, lo, mid)
       IN IF first.lo >= 0
          THEN CrcRange(first, b, mid + 1, hi)
          ELSE first

update_crc32(crc, b) == CrcRange(crc, b, 1, Len(b))

crc32_checksum(b) == U32Xor(update_crc32(ALL_ONES, b), ALL_ONES)

\* (b << 16) | a on uint32_t
ShiftOr(b, a) == U32(BitOr(b % Half, a \div Half), a % Half)

\* The loop of adler32_checksum over b[lo..hi]; t holds a and b
RECURSIVE Adler32Loop(_, _, _, _)
Adler32Loop(t, b, lo, hi) ==
  IF lo > hi THEN t
  ELSE IF lo = hi
  THEN LET a1 == (t.a + b[lo]) % ADLER_MOD
       IN [a |-> a1, b |-> (t.b + a1) % ADLER_MOD]
  ELSE LET mid == (lo + hi) \div 2
           first == Adler32Loop(t, b, lo, mid)
       IN IF first.a >= 0
          THEN Adler32Loop(first, b, mid + 1, hi)
          ELSE first

adler32_checksum(b) ==
  LET t == Adler32Loop([a |-> 1, b |-> 0], b, 1, Len(b))
  IN ShiftOr(t.b, t.a)

\* The loop of bsd_sum_checksum over b[lo..hi]
RECURSIVE BsdLoop(_, _, _, _)
BsdLoop(c, b, lo, hi) ==
  IF lo > hi THEN c
  ELSE IF lo = hi
  THEN ((c \div 2) + ((c % 2) * 32768) + b[lo]) % Half
  ELSE LET mid == (lo + hi) \div 2
           first == BsdLoop(c, b, lo, mid)
       IN IF first >= 0
          THEN BsdLoop(first, b, mid + 1, hi)
          ELSE first

bsd_sum_checksum(b) == U32(0, BsdLoop(0, b, 1, Len(b)))

calculate_checksum(b, type) ==
  CASE type = CHECKSUM_CRC32 -> crc32_checksum(b)
    [] type = CHECKSUM_ADLER32 -> adler32_checksum(b)
    [] type = CHECKSUM_BSD_SUM -> bsd_sum_checksum(b)
    [] OTHER -> U32(0, 0)

\* The Adler-32 case of the loop of checksum_file, with 65536 for 65521
RunAdlerByte_Mod65536(t, x) ==
  LET a1 == (t.a + x) % Half
  IN [a |-> a1, b |-> (t.b + a1) % Half]

\* The Adler-32 case of the loop of checksum_file on the byte x; t holds
\* running_adler_a and running_adler_b
RunAdlerByte(t, x) ==
  LET a1 == (t.a + x) % ADLER_MOD
  IN [a |-> a1, b |-> (t.b + a1) % ADLER_MOD]

RECURSIVE RunAdler(_, _, _, _)
RunAdler(t, b, lo, hi) ==
  IF lo > hi THEN t
  ELSE IF lo = hi THEN RunAdlerByte(t, b[lo])
  ELSE LET mid == (lo + hi) \div 2
           first == RunAdler(t, b, lo, mid)
       IN IF first.a >= 0
          THEN RunAdler(first, b, mid + 1, hi)
          ELSE first

\* The BSD case of the loop of checksum_file on the byte x
RunBsdByte(c, x) == ((c \div 2) + ((c % 2) * 32768) + x) % Half

RECURSIVE RunBsd(_, _, _, _)
RunBsd(c, b, lo, hi) ==
  IF lo > hi THEN c
  ELSE IF lo = hi THEN RunBsdByte(c, b[lo])
  ELSE LET mid == (lo + hi) \div 2
           first == RunBsd(c, b, lo, mid)
       IN IF first >= 0
          THEN RunBsd(first, b, mid + 1, hi)
          ELSE first

\* The switch after the loop of checksum_file: the value of checksum
FinalChecksum(r) ==
  CASE r.checksum_type = CHECKSUM_CRC32 -> U32Xor(r.running_crc, ALL_ONES)
    [] r.checksum_type = CHECKSUM_ADLER32 ->
         ShiftOr(r.running_adler.b, r.running_adler.a)
    [] r.checksum_type = CHECKSUM_BSD_SUM ->
         U32(r.running_bsd \div Half, r.running_bsd % Half)

\* "%08x" of a uint32_t
Hex08(v) == Digits(v.hi, 4, 16) \o Digits(v.lo, 4, 16)

\* argv[k] of the operands, "f1", "f2", and the name given to stdin
CkName(k) == <<102, 48 + k>>
StdinName ==
  <<40, 115, 116, 97, 110, 100, 97, 114, 100, 32, 105, 110, 112, 117, 116, 41>>

\* The options getopt_long can return; 'v' takes an argument
CkOptions == {"c", "s", "a", "v", "q", "h", "V", "?"}

\* A file of one byte more than the buffer of checksum_file
SumLarge == [k \in 1..(sizeof_buffer + 1) |-> 255]

\* The contents summed: up to MaxBytes bytes, and the large one
CkContents ==
  UNION {[1..n -> {0, 1, 255}] : n \in 0..MaxBytes} \cup {SumLarge}

InitSum ==
  /\ ScanIdle
  /\ argc = 1
  /\ ClocIdle
  /\ DetIdle /\ CfIdle /\ DfIdle /\ HxIdle
  /\ \E opts \in UNION {[1..n -> CkOptions] : n \in 0..MaxOpts},
        operands \in 0..1 :
       ck = [pc |-> "getopt", argv |-> opts, operands |-> operands,
             checksum_type |-> CHECKSUM_CRC32, quiet |-> FALSE,
             verify_file |-> FALSE, i |-> 1,
             filename |-> <<>>, content |-> <<>>, pos |-> 0, reads |-> 0,
             running_crc |-> ALL_ONES,
             running_adler |-> [a |-> 1, b |-> 0],
             running_bsd |-> 0, checksum |-> U32(0, 0),
             returned |-> "none", out |-> <<>>, exit_code |-> 0]

CkOthers ==
  /\ UNCHANGED <<det, cf, df, hx>>
  /\ UNCHANGED scanVars
  /\ UNCHANGED clocVars

\* main: getopt_long returns the next option
CkGetopt ==
  /\ ck.pc = "getopt"
  /\ ck.argv # <<>>
  /\ LET c == Head(ck.argv)
         rest == [ck EXCEPT !.argv = Tail(@)]
     IN ck' =
          CASE c = "c" -> [rest EXCEPT !.checksum_type = CHECKSUM_CRC32]
            [] c = "s" -> [rest EXCEPT !.checksum_type = CHECKSUM_BSD_SUM]
            [] c = "a" -> [rest EXCEPT !.checksum_type = CHECKSUM_ADLER32]
            [] c = "v" -> [rest EXCEPT !.verify_file = TRUE]
            [] c = "q" -> [rest EXCEPT !.quiet = TRUE]
            [] c \in {"h", "V"} -> [rest EXCEPT !.pc = "exit", !.exit_code = 0]
            [] OTHER -> [rest EXCEPT !.pc = "exit", !.exit_code = 1]
  /\ CkOthers

\* main after the options: the verify message, or the loop over the operands
CkOptionsDone ==
  /\ ck.pc = "getopt"
  /\ ck.argv = <<>>
  /\ ck' = IF ck.verify_file
           THEN [ck EXCEPT !.pc = "exit", !.exit_code = 1]
           ELSE [ck EXCEPT !.pc = "main"]
  /\ CkOthers

\* checksum_file up to its loop: stdin for NULL, fopen otherwise
CkOpen ==
  /\ ck.pc = "main"
  /\ ck.operands = 0 \/ ck.i <= ck.operands
  /\ \E open_ok \in BOOLEAN, content \in CkContents :
       IF ck.operands > 0 /\ ~open_ok
       THEN ck' = [ck EXCEPT !.pc = IF ck.i < ck.operands THEN "main" ELSE "exit",
                             !.i = @ + 1, !.exit_code = 1,
                             !.returned = "fopen"]
       ELSE ck' = [ck EXCEPT
                     !.pc = "fread", !.returned = "none",
                     !.filename = IF ck.operands = 0 THEN StdinName
                                  ELSE CkName(ck.i),
                     !.content = content, !.pos = 0, !.reads = 0,
                     !.running_crc = ALL_ONES,
                     !.running_adler = [a |-> 1, b |-> 0],
                     !.running_bsd = 0, !.checksum = U32(0, 0)]
  /\ CkOthers

\* One round of the loop of checksum_file: fread returns nread > 0 bytes, a
\* full buffer from a file longer than MaxBytes, and the case of
\* checksum_type takes them; reads counts the rounds
CkRead ==
  /\ ck.pc = "fread"
  /\ ck.pos < Len(ck.content)
  /\ \E nread \in 1..Min(Len(ck.content) - ck.pos, sizeof_buffer) :
       /\ Len(ck.content) > MaxBytes =>
            nread = Min(Len(ck.content) - ck.pos, sizeof_buffer)
       /\ LET buffer == SubSeq(ck.content, ck.pos + 1, ck.pos + nread)
              r == [ck EXCEPT !.pos = @ + nread, !.reads = @ + 1]
          IN ck' =
               CASE ck.checksum_type = CHECKSUM_CRC32 ->
                      [r EXCEPT !.running_crc = update_crc32(@, buffer)]
                 [] ck.checksum_type = CHECKSUM_ADLER32 ->
                      [r EXCEPT !.running_adler = RunAdler(@, buffer, 1, nread)]
                 [] ck.checksum_type = CHECKSUM_BSD_SUM ->
                      [r EXCEPT !.running_bsd = RunBsd(@, buffer, 1, nread)]
  /\ CkOthers

\* fread returns 0, at the end of the input or on an error: the final
\* switch, then the message and result = 1 when ferror, the line otherwise;
\* main sets exit_code from the result
CkFinish ==
  /\ ck.pc = "fread"
  /\ \E ferror \in BOOLEAN :
       /\ ~ferror => ck.pos = Len(ck.content)
       /\ LET checksum == FinalChecksum(ck)
              line == IF ck.quiet THEN Hex08(checksum) \o <<NL>>
                      ELSE Hex08(checksum) \o <<32, 32>> \o ck.filename \o <<NL>>
              result == IF ferror THEN 1 ELSE 0
          IN ck' = [ck EXCEPT
                      !.pc = IF ck.i < ck.operands THEN "main" ELSE "exit",
                      !.i = @ + 1,
                      !.checksum = checksum,
                      !.returned = IF ferror THEN "ferror" ELSE "printed",
                      !.out = IF ferror THEN @ ELSE Append(@, line),
                      !.exit_code = IF ck.operands = 0 THEN result
                                    ELSE IF result # 0 THEN 1 ELSE @]
  /\ CkOthers

NextSum ==
  \/ CkGetopt
  \/ CkOptionsDone
  \/ CkOpen
  \/ CkRead
  \/ CkFinish

SpecSum == InitSum /\ [][NextSum]_vars

\* The running values of checksum_file after the bytes of b, from the start
Running(type, b) ==
  CASE type = CHECKSUM_CRC32 -> update_crc32(ALL_ONES, b)
    [] type = CHECKSUM_ADLER32 -> RunAdler([a |-> 1, b |-> 0], b, 1, Len(b))
    [] type = CHECKSUM_BSD_SUM -> RunBsd(0, b, 1, Len(b))

\* Whether the halves of Adler-32 stay below 65521 and the BSD sum below 2^16
\* after every byte of b[lo..hi]; t holds the three running values and ok
RECURSIVE InRange(_, _, _, _)
InRange(t, b, lo, hi) ==
  IF lo > hi THEN t
  ELSE IF lo = hi
  THEN LET ad == RunAdlerByte(t.adler, b[lo])
           bs == RunBsdByte(t.bsd, b[lo])
       IN [adler |-> ad, bsd |-> bs,
           ok |-> t.ok /\ ad.a < ADLER_MOD /\ ad.b < ADLER_MOD /\ bs < Half]
  ELSE LET mid == (lo + hi) \div 2
           first == InRange(t, b, lo, mid)
       IN IF first.ok \in BOOLEAN
          THEN InRange(first, b, mid + 1, hi)
          ELSE first

(***************************************************************************)
(* C28.  For CRC32, Adler-32 and the BSD sum, the value checksum_file      *)
(* computes over successive reads of at most 8192 bytes is the value the   *)
(* one-shot function computes on the whole content, under every split of   *)
(* the content into reads; the halves of Adler-32 stay below 65521 and the *)
(* BSD sum below 2^16 after every byte.                                    *)
(***************************************************************************)
C28_IncrementalEqualsOneShot ==
  /\ ck.returned = "printed" =>
       /\ ck.pos = Len(ck.content)
       /\ ck.checksum = calculate_checksum(ck.content, ck.checksum_type)
       /\ SubSeq(ck.out[Len(ck.out)], 1, 8) = Hex08(ck.checksum)
  /\ ck.pc = "fread" /\ ck.pos > 0 =>
       Running(ck.checksum_type, SubSeq(ck.content, 1, ck.pos)) =
         CASE ck.checksum_type = CHECKSUM_CRC32 -> ck.running_crc
           [] ck.checksum_type = CHECKSUM_ADLER32 -> ck.running_adler
           [] ck.checksum_type = CHECKSUM_BSD_SUM -> ck.running_bsd
  /\ ck.pc = "fread" =>
       /\ ck.running_adler.a < ADLER_MOD /\ ck.running_adler.b < ADLER_MOD
       /\ ck.running_bsd < Half
       /\ ck.pos = 0 =>
            InRange([adler |-> ck.running_adler, bsd |-> ck.running_bsd,
                     ok |-> TRUE], ck.content, 1, Len(ck.content)).ok

\* Three bytes came in three reads and were summed by Adler-32
C28_Witness ==
  /\ ck.returned = "printed" /\ ck.checksum_type = CHECKSUM_ADLER32
  /\ ck.content = <<255, 1, 255>> /\ ck.reads = 3
  /\ ck.checksum = adler32_checksum(ck.content)
  /\ ck.out # <<>>

====
